---- MODULE Spec2Model ----
(***************************************************************************)
(* Model of the WhatsApp instance manager                                  *)
(* (whatsmeow/internal/whatsapp/client.go): the instance registry and its  *)
(* lifecycle operations, the per-instance event bus, the bounded message   *)
(* cache and the outbound operations.                                      *)
(*                                                                         *)
(* The specifications share the variables:                                 *)
(*   Spec        registry, lifecycle and outbound operations called one at *)
(*               a time, library callbacks arriving at any moment;         *)
(*   SpecRace    the lifecycle operations run by concurrent callers;       *)
(*   SpecBus     Subscribe / Unsubscribe / publishEvent at the granularity *)
(*               of their lock regions and channel sends;                  *)
(*   SpecCache   storeMessage / GetChatMessages;                           *)
(*   SpecRestore the restore of the mapped sessions at boot;               *)
(*   SpecEvents  the Message and CallOffer handlers and the settings;      *)
(*   SpecProxy, FairProxy   SetProxy and its reconnect goroutine;          *)
(*   SpecHistory the HistorySync handler and the cache;                    *)
(*   SpecLocks   the instance lock around Status;                          *)
(*   SpecOrder   the lock regions of the operations and handlers;          *)
(*   SpecBridge  the Node bridge's sockets to the service                  *)
(*               (class WhatsAppBridge).                                   *)
(***************************************************************************)
EXTENDS Integers, Sequences, FiniteSets, TLC

\* ------------------------------------------------------------------ bounds
MaxObj == 2          \* Instance objects ever allocated
MaxSubs == 3         \* channels ever made for subscribers in a run of SpecBus
MaxPub == 2          \* publishEvent calls in a run of SpecBus
MaxStore == 502      \* storeMessage calls for the busy chat in SpecCache
MaxCold == 2         \* storeMessage calls for the quiet chat in SpecCache

\* ------------------------------------------------------- program constants
CacheCap == 500      \* per-(instance, chat) cap of the message cache
ChanCap == 100       \* capacity of a subscriber channel

\* events waiting in the channel of the stalled subscriber when SpecBus starts
Backlog == ChanCap - 1

IDs == {"a"}
Callers == {"t1"}          \* the caller of Spec
Racers == {"r1", "r2"}     \* the concurrent callers of SpecRace
Threads == Callers \cup Racers
Nil == 0
NoJID == 0
Free == "free"

VARIABLES
    instances,    \* m.instances: id -> Instance pointer (Nil = absent)
    objs,         \* heap of Instance objects, indexed by pointer
    mapping,      \* m.mapping: id -> JID (NoJID = absent)
    mappingFile,  \* contents of instances.json
    container,    \* JIDs that have a device in the sqlstore container
    mu,           \* holder of m.mu in write mode (Free = nobody)
    thr,          \* caller threads: position and locals
    evt,          \* event handed to publishEvent by the last step
    libCall,      \* protocol-library operation invoked by the last step
    eventSubs,    \* m.eventSubs[id]: slice header (array, length)
    arrays,       \* backing arrays of the subscriber slices
    chans,        \* subscriber channels: buffer and closed flag
    subsMu,       \* holder of m.eventSubsMu in write mode
    bus,          \* threads of the event-bus specification
    npub,         \* number of events handed to publishEvent so far
    messages,     \* m.messages: instance id -> chat -> list of messages
    stored,       \* number of storeMessage calls per instance id and chat
    rd,           \* the last GetChatMessages call and what it returned
    delivered,    \* Message and CallOffer events the library has dispatched
    tasks,        \* detached goroutines that have not made their call yet
    finished,     \* detached goroutines that have, and how the call ended
    bridge        \* the Node bridge: its sockets to the service, maps and timers

lifeVars == <<instances, objs, mapping, mappingFile, container, mu, thr, evt, libCall>>
busVars == <<eventSubs, arrays, chans, subsMu, bus, npub>>
cacheVars == <<messages, stored, rd>>
taskVars == <<delivered, tasks, finished>>
bridgeVars == <<bridge>>
vars == <<lifeVars, busVars, cacheVars, taskVars, bridgeVars>>

\* =====================================================================
\* Instance registry and lifecycle (Spec)
\* =====================================================================
NoEvt == <<>>
NoCall == "none"

\* A caller thread: the operation it runs (op, id), its position (pc), the
\* Instance it got (inst) and what it returned (res; "ok_already" is the early
\* return of Connect, the same value as "ok").  For an outbound operation: the
\* index of the next library call (k), the number of calls made (calls) and the
\* status the instance had when the operation was called (st0).  prev records
\* what a Disconnect that has just returned left behind, until the next
\* operation of the caller has returned: the Instance it ran on, its device
\* handle and identity, and the mapping entry of the id.
NoPrev == <<>>
\* boot is used by the restore at boot only: the mapping entries still to be
\* visited (todo), those given up for a failure (skipped) and those whose
\* connect attempt failed (connFailed).  arg is the proxy a SetProxy call was
\* given.  held and code are used by the specification of the lock regions:
\* the locks the goroutine holds and the statements it has still to execute.
NoBoot == <<>>
Idle ==
    [pc |-> "idle", op |-> "none", id |-> "-", inst |-> Nil,
     res |-> "-", k |-> 0, st0 |-> "-", calls |-> 0, prev |-> NoPrev,
     boot |-> NoBoot, arg |-> "", held |-> {}, code |-> <<>>]

\* the record of a caller that enters operation op on id
Call(t, op, id) ==
    [Idle EXCEPT !.op = op, !.id = id,
                 !.prev = IF op = "Connect" THEN thr[t].prev ELSE NoPrev]

\* only the caller of Spec keeps the record
Left(t) ==
    IF t \in Callers
      THEN [inst |-> thr[t].inst, dev |-> objs[thr[t].inst].Device,
            jid |-> objs[thr[t].inst].StoreID, map |-> mapping[thr[t].id]]
      ELSE NoPrev

\* &Instance{ID, Client, Device, Status: "disconnected"}: the zero value of
\* every other field.  Device is the device handle (one per Instance), StoreID
\* its Client.Store.ID, Up the state of the client's transport.  Removed
\* records that the object was deleted from m.instances.
NewInstance(id, ptr, storeId) ==
    [ID |-> id, Device |-> ptr, StoreID |-> storeId, Status |-> "disconnected",
     QRCode |-> "", PairingCode |-> "", WANumber |-> NoJID, WAName |-> "",
     Up |-> FALSE, Removed |-> FALSE,
     RejectCalls |-> FALSE, IgnoreGroups |-> FALSE, ReadMessages |-> FALSE,
     AlwaysOnline |-> FALSE, Proxy |-> "", Mu |-> Free]

Ptrs == 1..Len(objs)

GOCpcs == {"goc_create"}

\* room on the heap for every GetOrCreateInstance call in progress
CanAllocate ==
    Len(objs) + Cardinality({u \in Threads : thr[u].pc \in GOCpcs}) < MaxObj

\* a manager whose operations do not wait for m.mu
MuFreeNoLock == TRUE
\* m.mu can be taken (Lock or RLock): nobody holds it in write mode
MuFree == mu = Free

\* saveMapping: the file is rewritten from m.mapping; a write error is logged
\* and the old file stays
saveMapping(m, file, writeOk) == IF writeOk THEN m ELSE file

\* outcomes of os.WriteFile on the mapping file while the disk is healthy
WriteOutcomes == {TRUE}

Quiet == evt' = NoEvt /\ libCall' = NoCall

Step(t, r) == thr' = [thr EXCEPT ![t] = r]
Goto(t, p) == thr' = [thr EXCEPT ![t].pc = p]
\* return result; Finish returns the Instance too, FinishNil drops it
Finish(t, result) == thr' = [thr EXCEPT ![t].pc = "done", ![t].res = result]
FinishNil(t, result) ==
    thr' = [thr EXCEPT ![t].pc = "done", ![t].res = result, ![t].inst = Nil]

SetField(o, f, v) == [objs EXCEPT ![o][f] = v]

\* An Instance that was deleted from m.instances and that no caller holds any
\* more is reachable only from the handler registered on its client: nothing
\* reads its fields again.  Its cell keeps what the library still acts on (the
\* transport and the device identity) and is zeroed otherwise.
Unreachable(os, th, p) ==
    os[p].Removed /\ \A t \in Threads : th[t].inst # p

Sweep(os, th) ==
    [p \in DOMAIN os |->
        IF Unreachable(os, th, p)
          THEN [NewInstance(os[p].ID, os[p].Device, os[p].StoreID)
                   EXCEPT !.Removed = TRUE, !.Up = os[p].Up,
                          !.RejectCalls = os[p].RejectCalls,
                          !.IgnoreGroups = os[p].IgnoreGroups,
                          !.ReadMessages = os[p].ReadMessages,
                          !.AlwaysOnline = os[p].AlwaysOnline,
                          !.Proxy = os[p].Proxy]
          ELSE os[p]]

\* ---------------------------------------------------- GetOrCreateInstance
\* m.mu.Lock() and the lookup in m.instances: an instance that is found is
\* returned (the deferred Unlock runs); otherwise the caller goes on to
\* create one, still holding m.mu
GetOrCreateInstance(t, id, op, next) ==
    /\ MuFree
    /\ IF instances[id] # Nil
         THEN /\ Step(t, [Call(t, op, id) EXCEPT !.pc = next,
                                              !.inst = instances[id]])
              /\ mu' = mu
         ELSE /\ Step(t, [Call(t, op, id) EXCEPT !.pc = "goc_create"])
              /\ mu' = t

\* a GetOrCreateInstance whose caller still holds m.mu after the return
UnlockLeftToCaller(t) == t
\* defer m.mu.Unlock(): the lock is released when GetOrCreateInstance returns
DeferredUnlock(t) == Free

\* the rest of GetOrCreateInstance: rehydrate the mapped device if the
\* container has it, else a new device; register the Instance; Unlock
GOCCreate(t) ==
    /\ thr[t].pc = "goc_create"
    /\ Len(objs) < MaxObj
    /\ \E dbOk \in BOOLEAN :
         LET id == thr[t].id
             ptr == Len(objs) + 1
             jid == mapping[id]
             storeId == IF jid # NoJID /\ dbOk /\ jid \in container
                          THEN jid ELSE NoJID
         IN /\ objs' = Append(objs, NewInstance(id, ptr, storeId))
            /\ instances' = [instances EXCEPT ![id] = ptr]
            /\ thr' = [thr EXCEPT ![t].inst = ptr,
                         ![t].pc = IF thr[t].op = "Connect" THEN "c_read" ELSE "p_read"]
    /\ mu' = DeferredUnlock(t)
    /\ Quiet
    /\ UNCHANGED <<mapping, mappingFile, container>>
    /\ UNCHANGED <<busVars, cacheVars, taskVars, bridgeVars>>

\* ----------------------------------------------------------------- Connect
StartConnect(t, id) ==
    /\ thr[t].pc = "idle"
    /\ instances[id] # Nil \/ CanAllocate
    /\ GetOrCreateInstance(t, id, "Connect", "c_read")
    /\ Quiet
    /\ UNCHANGED <<instances, objs, mapping, mappingFile, container>>
    /\ UNCHANGED <<busVars, cacheVars, taskVars, bridgeVars>>

\* a Connect without the early return
ConnectReadNoReturn(t) ==
    /\ thr[t].pc = "c_read"
    /\ Goto(t, "c_set")

\* inst.mu.RLock(); currentStatus := inst.Status; RUnlock; the early return
\* when it is "connected"
ConnectRead(t) ==
    /\ thr[t].pc = "c_read"
    /\ LET cur == objs[thr[t].inst].Status
       IN thr' = [thr EXCEPT ![t].pc = IF cur = "connected" THEN "done" ELSE "c_set",
                             ![t].res = IF cur = "connected" THEN "ok_already" ELSE "-"]

CRead(t) ==
    /\ ConnectRead(t)
    /\ Quiet
    /\ UNCHANGED <<instances, objs, mapping, mappingFile, container, mu>>
    /\ UNCHANGED <<busVars, cacheVars, taskVars, bridgeVars>>

CSet(t) ==
    /\ thr[t].pc = "c_set"
    /\ objs' = SetField(thr[t].inst, "Status", "connecting")
    /\ Goto(t, "c_conn")
    /\ Quiet
    /\ UNCHANGED <<instances, mapping, mappingFile, container, mu>>
    /\ UNCHANGED <<busVars, cacheVars, taskVars, bridgeVars>>

CConn(t) ==
    /\ thr[t].pc = "c_conn"
    /\ \E ok \in BOOLEAN :
         IF ok THEN /\ objs' = SetField(thr[t].inst, "Up", TRUE)
                    /\ Finish(t, "ok")
               ELSE /\ objs' = objs
                    /\ Goto(t, "c_fail")
    /\ evt' = NoEvt
    /\ libCall' = "Connect"
    /\ UNCHANGED <<instances, mapping, mappingFile, container, mu>>
    /\ UNCHANGED <<busVars, cacheVars, taskVars, bridgeVars>>

\* a Connect that forgets to reset the status when the library connect fails
CFailKeepsStatus(t) ==
    /\ thr[t].pc = "c_fail"
    /\ FinishNil(t, "err_connect")
    /\ objs' = Sweep(objs, thr')
    /\ Quiet
    /\ UNCHANGED <<instances, mapping, mappingFile, container, mu>>
    /\ UNCHANGED <<busVars, cacheVars, taskVars, bridgeVars>>

\* the failure branch: inst.Status = "disconnected"; return nil, err
CFail(t) ==
    /\ thr[t].pc = "c_fail"
    /\ FinishNil(t, "err_connect")
    /\ objs' = Sweep(SetField(thr[t].inst, "Status", "disconnected"), thr')
    /\ Quiet
    /\ UNCHANGED <<instances, mapping, mappingFile, container, mu>>
    /\ UNCHANGED <<busVars, cacheVars, taskVars, bridgeVars>>

\* the operation returns to its caller
Return(t) ==
    /\ thr[t].pc = "done"
    /\ Step(t, [Idle EXCEPT !.prev = IF thr[t].op = "Disconnect"
                                      THEN thr[t].prev ELSE NoPrev])
    /\ objs' = Sweep(objs, thr')
    /\ Quiet
    /\ UNCHANGED <<instances, mapping, mappingFile, container, mu>>
    /\ UNCHANGED <<busVars, cacheVars, taskVars, bridgeVars>>

\* -------------------------------------------------------------- Disconnect
\* a lookup that reports success for an id that is not registered
LookupMissingOk(t, id, op, found) ==
    /\ MuFree
    /\ IF instances[id] = Nil
         THEN Step(t, [Call(t, op, id) EXCEPT !.pc = "done", !.res = "ok"])
         ELSE Step(t, [Call(t, op, id) EXCEPT !.pc = found,
                                              !.inst = instances[id]])

\* m.mu.RLock(); inst, ok := m.instances[id]; m.mu.RUnlock()
Lookup(t, id, op, found) ==
    /\ MuFree
    /\ IF instances[id] = Nil
         THEN Step(t, [Call(t, op, id) EXCEPT !.pc = "done",
                                              !.res = "err_notfound"])
         ELSE Step(t, [Call(t, op, id) EXCEPT !.pc = found,
                                              !.inst = instances[id]])

StartDisconnect(t, id) ==
    /\ thr[t].pc = "idle"
    /\ Lookup(t, id, "Disconnect", "d_disc")
    /\ Quiet
    /\ UNCHANGED <<instances, objs, mapping, mappingFile, container, mu>>
    /\ UNCHANGED <<busVars, cacheVars, taskVars, bridgeVars>>

\* a Disconnect that leaves the transport up
DDiscKeepsTransport(t) ==
    /\ thr[t].pc = "d_disc"
    /\ objs' = objs
    /\ Goto(t, "d_set")
    /\ evt' = NoEvt
    /\ libCall' = NoCall
    /\ UNCHANGED <<instances, mapping, mappingFile, container, mu>>
    /\ UNCHANGED <<busVars, cacheVars, taskVars, bridgeVars>>

\* inst.Client.Disconnect()
DDisc(t) ==
    /\ thr[t].pc = "d_disc"
    /\ objs' = SetField(thr[t].inst, "Up", FALSE)
    /\ Goto(t, "d_set")
    /\ evt' = NoEvt
    /\ libCall' = "Disconnect"
    /\ UNCHANGED <<instances, mapping, mappingFile, container, mu>>
    /\ UNCHANGED <<busVars, cacheVars, taskVars, bridgeVars>>

\* a Disconnect that also drops the Instance from the registry
DSetForgets(t) ==
    /\ thr[t].pc = "d_set"
    /\ thr' = [thr EXCEPT ![t].pc = "done", ![t].res = "ok", ![t].inst = Nil,
                          ![t].prev = Left(t)]
    /\ objs' = Sweep(SetField(thr[t].inst, "Status", "disconnected"), thr')
    /\ Quiet
    /\ instances' = [instances EXCEPT ![thr[t].id] = Nil]
    /\ UNCHANGED <<mapping, mappingFile, container, mu>>
    /\ UNCHANGED <<busVars, cacheVars, taskVars, bridgeVars>>

\* inst.Status = "disconnected" under inst.mu; return nil
DSet(t) ==
    /\ thr[t].pc = "d_set"
    /\ thr' = [thr EXCEPT ![t].pc = "done", ![t].res = "ok", ![t].inst = Nil,
                          ![t].prev = Left(t)]
    /\ objs' = Sweep(SetField(thr[t].inst, "Status", "disconnected"), thr')
    /\ Quiet
    /\ UNCHANGED <<instances, mapping, mappingFile, container, mu>>
    /\ UNCHANGED <<busVars, cacheVars, taskVars, bridgeVars>>

\* ------------------------------------------------------------------ Logout
StartLogout(t, id) ==
    /\ thr[t].pc = "idle"
    /\ Lookup(t, id, "Logout", "l_logout")
    /\ Quiet
    /\ UNCHANGED <<instances, objs, mapping, mappingFile, container, mu>>
    /\ UNCHANGED <<busVars, cacheVars, taskVars, bridgeVars>>

\* a Logout that goes on to disconnect and delete although the library
\* logout failed
LLogoutIgnoresError(t) ==
    /\ thr[t].pc = "l_logout"
    /\ objs' = SetField(thr[t].inst, "Up", FALSE)
    /\ thr' = [thr EXCEPT ![t].pc = "done", ![t].res = "ok", ![t].inst = Nil]
    /\ instances' = [instances EXCEPT ![thr[t].id] = Nil]
    /\ evt' = NoEvt
    /\ libCall' = "Logout"
    /\ UNCHANGED <<mapping, mappingFile, container, mu>>
    /\ UNCHANGED <<busVars, cacheVars, taskVars, bridgeVars>>

\* inst.Client.Logout(ctx): the library refuses when the device is not
\* paired or the transport is down; on success it unpairs the device, deletes
\* it from the container and closes the transport
LLogout(t) ==
    /\ thr[t].pc = "l_logout"
    /\ \E ok \in BOOLEAN :
         LET o == thr[t].inst IN
         /\ ok => objs[o].StoreID # NoJID /\ objs[o].Up
         /\ IF ok THEN /\ objs' = [objs EXCEPT ![o].StoreID = NoJID, ![o].Up = FALSE]
                       /\ container' = container \ {objs[o].StoreID}
                       /\ Goto(t, "l_disc")
                  ELSE /\ FinishNil(t, "err_logout")
                       /\ objs' = Sweep(objs, thr')
                       /\ container' = container
    /\ evt' = NoEvt
    /\ libCall' = "Logout"
    /\ UNCHANGED <<instances, mapping, mappingFile, mu>>
    /\ UNCHANGED <<busVars, cacheVars, taskVars, bridgeVars>>

LDisc(t) ==
    /\ thr[t].pc = "l_disc"
    /\ objs' = SetField(thr[t].inst, "Up", FALSE)
    /\ Goto(t, "l_del")
    /\ evt' = NoEvt
    /\ libCall' = "Disconnect"
    /\ UNCHANGED <<instances, mapping, mappingFile, container, mu>>
    /\ UNCHANGED <<busVars, cacheVars, taskVars, bridgeVars>>

\* m.mu.Lock(); delete(m.instances, instanceID); m.mu.Unlock()
LDel(t) ==
    /\ thr[t].pc = "l_del"
    /\ MuFree
    /\ FinishNil(t, "ok")
    /\ LET id == thr[t].id IN
         /\ instances' = [instances EXCEPT ![id] = Nil]
         /\ objs' = IF instances[id] = Nil THEN Sweep(objs, thr')
                    ELSE Sweep(SetField(instances[id], "Removed", TRUE), thr')
    /\ Quiet
    /\ UNCHANGED <<mapping, mappingFile, container, mu>>
    /\ UNCHANGED <<busVars, cacheVars, taskVars, bridgeVars>>

\* ------------------------------------------------------- library callbacks
\* The handler setupEventHandlers registers on the client of Instance o.  The
\* library dispatches events of a client whose transport is up.
Publishes(type, id) == evt' = <<type, id>> /\ libCall' = NoCall

CbQR(o) ==
    /\ objs[o].Up /\ objs[o].StoreID = NoJID
    /\ objs' = Sweep([objs EXCEPT ![o].Status = "qr", ![o].QRCode = "qr"], thr)
    /\ Publishes("qr", objs[o].ID)
    /\ UNCHANGED <<instances, mapping, mappingFile, container, mu, thr>>
    /\ UNCHANGED <<busVars, cacheVars, taskVars, bridgeVars>>

\* events.PairSuccess: the library has stored the paired device under a new
\* JID (the JID of Instance o is o); the handler records the number and the
\* mapping, and publishes nothing
CbPairSuccess(o) ==
    /\ objs[o].Up /\ objs[o].StoreID = NoJID
    /\ MuFree
    /\ \E writeOk \in WriteOutcomes :
         /\ objs' = Sweep([objs EXCEPT ![o].StoreID = o, ![o].WANumber = o], thr)
         /\ container' = container \cup {o}
         /\ mapping' = [mapping EXCEPT ![objs[o].ID] = o]
         /\ mappingFile' = saveMapping(mapping', mappingFile, writeOk)
    /\ Quiet
    /\ UNCHANGED <<instances, mu, thr>>
    /\ UNCHANGED <<busVars, cacheVars, taskVars, bridgeVars>>

\* events.PairSuccess when os.WriteFile fails in saveMapping: the error is
\* logged, m.mapping keeps the new entry and the file stays as it was
CbPairSuccessUnsaved(o) ==
    /\ objs[o].Up /\ objs[o].StoreID = NoJID
    /\ MuFree
    /\ objs' = Sweep([objs EXCEPT ![o].StoreID = o, ![o].WANumber = o], thr)
    /\ container' = container \cup {o}
    /\ mapping' = [mapping EXCEPT ![objs[o].ID] = o]
    /\ mappingFile' = saveMapping(mapping', mappingFile, FALSE)
    /\ Quiet
    /\ UNCHANGED <<instances, mu, thr>>
    /\ UNCHANGED <<busVars, cacheVars, taskVars, bridgeVars>>

CbConnected(o) ==
    /\ objs[o].Up /\ objs[o].StoreID # NoJID
    /\ objs' = Sweep([objs EXCEPT ![o].Status = "connected", ![o].QRCode = "",
                                  ![o].WANumber = objs[o].StoreID,
                                  ![o].WAName = "name"], thr)
    /\ Publishes("ready", objs[o].ID)
    /\ UNCHANGED <<instances, mapping, mappingFile, container, mu, thr>>
    /\ UNCHANGED <<busVars, cacheVars, taskVars, bridgeVars>>

\* events.Disconnected: the transport dropped; the library may reconnect it
CbDisconnected(o) ==
    /\ objs[o].Up
    /\ \E up \in BOOLEAN :
         objs' = Sweep([objs EXCEPT ![o].Status = "disconnected", ![o].Up = up], thr)
    /\ Publishes("disconnected", objs[o].ID)
    /\ UNCHANGED <<instances, mapping, mappingFile, container, mu, thr>>
    /\ UNCHANGED <<busVars, cacheVars, taskVars, bridgeVars>>

\* events.LoggedOut: the server removed the pairing; the library has deleted
\* the device and closed the transport
CbLoggedOut(o) ==
    /\ objs[o].Up /\ objs[o].StoreID # NoJID
    /\ objs' = Sweep([objs EXCEPT ![o].Status = "disconnected",
                                  ![o].WANumber = NoJID, ![o].WAName = "",
                                  ![o].StoreID = NoJID, ![o].Up = FALSE], thr)
    /\ container' = container \ {objs[o].StoreID}
    /\ Publishes("logged_out", objs[o].ID)
    /\ UNCHANGED <<instances, mapping, mappingFile, mu, thr>>
    /\ UNCHANGED <<busVars, cacheVars, taskVars, bridgeVars>>

\* -------------------------------------------------- ConnectWithPairingCode
StartPair(t, id) ==
    /\ thr[t].pc = "idle"
    /\ instances[id] # Nil \/ CanAllocate
    /\ GetOrCreateInstance(t, id, "Pair", "p_read")
    /\ Quiet
    /\ UNCHANGED <<instances, objs, mapping, mappingFile, container>>
    /\ UNCHANGED <<busVars, cacheVars, taskVars, bridgeVars>>

\* currentStatus := inst.Status under inst.mu; "already connected"
PRead(t) ==
    /\ thr[t].pc = "p_read"
    /\ IF objs[thr[t].inst].Status = "connected"
         THEN FinishNil(t, "err_connected")
         ELSE Goto(t, "p_store")
    /\ objs' = Sweep(objs, thr')
    /\ Quiet
    /\ UNCHANGED <<instances, mapping, mappingFile, container, mu>>
    /\ UNCHANGED <<busVars, cacheVars, taskVars, bridgeVars>>

\* a pairing that does not look at the identity of the device
PairStoreNoCheck(t) ==
    /\ thr[t].pc = "p_store"
    /\ Goto(t, "p_set")

\* if inst.Client.Store.ID != nil: "already has a session"
PairStore(t) ==
    /\ thr[t].pc = "p_store"
    /\ IF objs[thr[t].inst].StoreID # NoJID
         THEN FinishNil(t, "err_session")
         ELSE Goto(t, "p_set")

PStore(t) ==
    /\ PairStore(t)
    /\ objs' = Sweep(objs, thr')
    /\ Quiet
    /\ UNCHANGED <<instances, mapping, mappingFile, container, mu>>
    /\ UNCHANGED <<busVars, cacheVars, taskVars, bridgeVars>>

\* inst.Status = "pairing"
PSet(t) ==
    /\ thr[t].pc = "p_set"
    /\ objs' = SetField(thr[t].inst, "Status", "pairing")
    /\ Goto(t, "p_conn")
    /\ Quiet
    /\ UNCHANGED <<instances, mapping, mappingFile, container, mu>>
    /\ UNCHANGED <<busVars, cacheVars, taskVars, bridgeVars>>

\* if !inst.Client.IsConnected() { err = inst.Client.Connect() ... }
PConn(t) ==
    /\ thr[t].pc = "p_conn"
    /\ IF objs[thr[t].inst].Up
         THEN /\ objs' = objs
              /\ Goto(t, "p_check")
              /\ libCall' = NoCall
         ELSE /\ libCall' = "Connect"
              /\ \E ok \in BOOLEAN :
                   IF ok THEN /\ objs' = SetField(thr[t].inst, "Up", TRUE)
                              /\ Goto(t, "p_check")
                         ELSE /\ objs' = objs
                              /\ thr' = [thr EXCEPT ![t].pc = "p_fail",
                                                    ![t].res = "err_connect"]
    /\ evt' = NoEvt
    /\ UNCHANGED <<instances, mapping, mappingFile, container, mu>>
    /\ UNCHANGED <<busVars, cacheVars, taskVars, bridgeVars>>

\* after the sleep: if !inst.Client.IsConnected() the pairing is given up
PCheck(t) ==
    /\ thr[t].pc = "p_check"
    /\ IF objs[thr[t].inst].Up
         THEN Goto(t, "p_pair")
         ELSE thr' = [thr EXCEPT ![t].pc = "p_fail", ![t].res = "err_transport"]
    /\ Quiet
    /\ UNCHANGED <<instances, objs, mapping, mappingFile, container, mu>>
    /\ UNCHANGED <<busVars, cacheVars, taskVars, bridgeVars>>

\* inst.Client.PairPhone(...)
PPair(t) ==
    /\ thr[t].pc = "p_pair"
    /\ \E ok \in BOOLEAN :
         IF ok THEN Goto(t, "p_code")
               ELSE thr' = [thr EXCEPT ![t].pc = "p_fail", ![t].res = "err_pair"]
    /\ evt' = NoEvt
    /\ libCall' = "PairPhone"
    /\ UNCHANGED <<instances, objs, mapping, mappingFile, container, mu>>
    /\ UNCHANGED <<busVars, cacheVars, taskVars, bridgeVars>>

\* the failure branches: inst.Status = "disconnected"; return "", err
PFail(t) ==
    /\ thr[t].pc = "p_fail"
    /\ thr' = [thr EXCEPT ![t].pc = "done", ![t].inst = Nil]
    /\ objs' = Sweep(SetField(thr[t].inst, "Status", "disconnected"), thr')
    /\ Quiet
    /\ UNCHANGED <<instances, mapping, mappingFile, container, mu>>
    /\ UNCHANGED <<busVars, cacheVars, taskVars, bridgeVars>>

\* inst.PairingCode = formattedCode; the pairing_code event; return the code
PCode(t) ==
    /\ thr[t].pc = "p_code"
    /\ FinishNil(t, "ok")
    /\ objs' = Sweep(SetField(thr[t].inst, "PairingCode", "code"), thr')
    /\ Publishes("pairing_code", thr[t].id)
    /\ UNCHANGED <<instances, mapping, mappingFile, container, mu>>
    /\ UNCHANGED <<busVars, cacheVars, taskVars, bridgeVars>>

\* ------------------------------------------------------ outbound operations
\* SendTextMessage, SendMediaMessage, SendLocationMessage, SendPollMessage,
\* EditMessage, ReactToMessage, DeleteMessage, SendPresence, MarkChatAsRead
Kinds == {"text", "media", "location", "poll", "edit", "react", "delete",
          "presence", "read"}

\* the operation reads inst.Status and returns "instance not connected"
\* unless it is "connected"
ChecksStatus(kind) == kind \notin {"media", "read"}

\* the calls the operation makes on inst.Client, in order
LibSeq(kind) ==
    CASE kind = "text"     -> <<"IsOnWhatsApp", "SendMessage">>
      [] kind = "media"    -> <<"IsOnWhatsApp", "Upload", "SendMessage">>
      [] kind = "location" -> <<"SendMessage">>
      [] kind = "poll"     -> <<"GetUserDevices", "SendMessage">>
      [] kind = "edit"     -> <<"IsOnWhatsApp", "SendMessage">>
      [] kind = "react"    -> <<"IsOnWhatsApp", "SendMessage">>
      [] kind = "delete"   -> <<"IsOnWhatsApp", "SendMessage">>
      [] kind = "presence" -> <<"IsOnWhatsApp", "SendChatPresence">>
      [] kind = "read"     -> <<"MarkRead">>

\* an error of call k is logged and the operation goes on
ErrIgnored(kind, k) ==
    \/ kind \in {"edit", "react", "delete"} /\ k = 1
    \/ kind = "poll" /\ k = 1

\* GetInstance and the status check (where the operation has one); the
\* arguments are well-formed, so the parsing that follows succeeds
StartSend(t, id, kind) ==
    /\ thr[t].pc = "idle"
    /\ MuFree
    /\ LET o == instances[id]
           call == Call(t, kind, id)
       IN IF o = Nil
            THEN Step(t, [call EXCEPT !.pc = "done", !.res = "err_notfound"])
            ELSE LET refused == ChecksStatus(kind) /\ objs[o].Status # "connected"
                 IN Step(t, [call EXCEPT
                      !.inst = o,
                      !.st0 = objs[o].Status,
                      !.k = 1,
                      !.pc = IF refused THEN "done" ELSE "s_call",
                      !.res = IF refused THEN "err_notconnected" ELSE "-"])
    /\ Quiet
    /\ UNCHANGED <<instances, objs, mapping, mappingFile, container, mu>>
    /\ UNCHANGED <<busVars, cacheVars, taskVars, bridgeVars>>

\* one call on inst.Client
SCall(t) ==
    /\ thr[t].pc = "s_call"
    /\ LET kind == thr[t].op
           k == thr[t].k
           last == k = Len(LibSeq(kind))
       IN /\ libCall' = LibSeq(kind)[k]
          /\ \E ok \in BOOLEAN :
               thr' = [thr EXCEPT
                  ![t].calls = @ + 1,
                  ![t].k = IF last THEN k ELSE k + 1,
                  ![t].pc = IF (ok \/ ErrIgnored(kind, k)) /\ ~last
                              THEN "s_call" ELSE "done",
                  ![t].res = IF ok \/ ErrIgnored(kind, k)
                               THEN (IF last THEN "ok" ELSE "-")
                               ELSE "err_lib"]
    /\ evt' = NoEvt
    /\ UNCHANGED <<instances, objs, mapping, mappingFile, container, mu>>
    /\ UNCHANGED <<busVars, cacheVars, taskVars, bridgeVars>>

\* ------------------------------------------------------------ specification
InitLife ==
    /\ instances = [id \in IDs |-> Nil]
    /\ objs = <<>>
    /\ mapping = [id \in IDs |-> NoJID]
    /\ mappingFile = [id \in IDs |-> NoJID]
    /\ container = {}
    /\ mu = Free
    /\ thr = [t \in Threads |-> Idle]
    /\ evt = NoEvt
    /\ libCall = NoCall

\* no subscriber, no bus thread
InitBus ==
    /\ eventSubs = [id \in IDs |-> [arr |-> Nil, len |-> 0]]
    /\ arrays = <<>>
    /\ chans = <<>>
    /\ subsMu = Free
    /\ bus = <<>>
    /\ npub = 0

\* nothing cached, nothing read
InitCache ==
    /\ messages = [id \in IDs |-> <<>>]
    /\ stored = [id \in IDs |-> [c \in {"busy", "quiet"} |-> 0]]
    /\ rd = [id |-> "", chat |-> "", limit |-> 0, res |-> <<>>]

\* no event dispatched to the Message and CallOffer handlers, no goroutine
\* detached
InitTasks ==
    /\ delivered = <<>>
    /\ tasks = {}
    /\ finished = {}

\* the bridge has just been constructed: no socket, no timer, nothing tracked
NoBridge ==
    [sockets |-> <<>>, wsConnections |-> [id \in IDs |-> Nil],
     reconnectTimers |-> [id \in IDs |-> Nil], timers |-> <<>>, instances |-> {}]

InitBridge == bridge = NoBridge

Init == InitLife /\ InitBus /\ InitCache /\ InitTasks /\ InitBridge

\* one step of a lifecycle operation run by caller thread t
LifeStep(t) ==
    \/ \E id \in IDs : StartConnect(t, id)
    \/ GOCCreate(t)
    \/ CRead(t)
    \/ CSet(t)
    \/ CConn(t)
    \/ CFail(t)
    \/ \E id \in IDs : StartDisconnect(t, id)
    \/ DDisc(t)
    \/ DSet(t)
    \/ \E id \in IDs : StartLogout(t, id)
    \/ LLogout(t)
    \/ LDisc(t)
    \/ LDel(t)
    \/ Return(t)

\* one step of ConnectWithPairingCode run by caller thread t
PairStep(t) ==
    \/ \E id \in IDs : StartPair(t, id)
    \/ PRead(t)
    \/ PStore(t)
    \/ PSet(t)
    \/ PConn(t)
    \/ PCheck(t)
    \/ PPair(t)
    \/ PFail(t)
    \/ PCode(t)

\* one step of an outbound operation run by caller thread t
SendStep(t) ==
    \/ \E id \in IDs, kind \in Kinds : StartSend(t, id, kind)
    \/ SCall(t)
    \/ Return(t)

\* a callback of the protocol library
Callback ==
    \/ \E o \in Ptrs : CbQR(o)
    \/ \E o \in Ptrs : CbPairSuccess(o)
    \/ \E o \in Ptrs : CbConnected(o)
    \/ \E o \in Ptrs : CbDisconnected(o)
    \/ \E o \in Ptrs : CbLoggedOut(o)

\* one caller at a time: lifecycle and outbound operations called one after
\* the other, with the library's callbacks arriving at any moment and writes
\* of the mapping file that may fail
Next ==
    \/ \E t \in Callers : LifeStep(t)
    \/ \E t \in Callers : PairStep(t)
    \/ \E t \in Callers : SendStep(t)
    \/ Callback
    \/ \E o \in Ptrs : CbPairSuccessUnsaved(o)

Spec == Init /\ [][Next]_vars

\* concurrent callers of the lifecycle operations
NextRace ==
    \/ \E t \in Racers : LifeStep(t)
    \/ Callback

SpecRace == Init /\ [][NextRace]_vars

\* =====================================================================
\* Event bus (SpecBus)
\* =====================================================================
Publisher == "p"
Subscribers == {"s1", "s2"}
BusThreads == {Publisher} \cup Subscribers

\* A thread of the bus.  A subscriber: the channel it got from Subscribe (ch),
\* the number of Unsubscribe calls it has completed on it (n), inside
\* Unsubscribe the index being shifted (i) and the list found when the lock was
\* taken (old).  The publisher: the event (e), the slice header it read under
\* the read lock (snap), the list at that moment (old), the index of the range
\* loop (i), the channel of the iteration (ch) and the channels the event was
\* put on, in order (sent), and those skipped because they were full (skip).
\* A subscriber is a websocket handler: out is what it has written to its
\* connection, in order.
NoSlice == [arr |-> Nil, len |-> 0]
BusIdle ==
    [pc |-> "idle", ch |-> Nil, n |-> 0, i |-> 0, e |-> 0, snap |-> NoSlice,
     old |-> <<>>, sent |-> <<>>, skip |-> {}, out |-> <<>>]

\* the elements of a slice
List(h) == [k \in 1..h.len |-> arrays[h.arr][k]]
Range(q) == {q[k] : k \in DOMAIN q}
Registered(id) == Range(List(eventSubs[id]))
IndexOf(q, c) == CHOOSE k \in DOMAIN q : q[k] = c /\ \A j \in 1..(k - 1) : q[j] # c
Without(q, k) == [j \in 1..(Len(q) - 1) |-> IF j < k THEN q[j] ELSE q[j + 1]]


\* ---------------------------------------------------------------- Subscribe
\* ch := make(chan Event, 100); m.eventSubs[id] = append(m.eventSubs[id], ch),
\* all under m.eventSubsMu.  append writes in place while the backing array
\* has room and otherwise moves the slice to a new array of twice the capacity.
Subscribe(t, id) ==
    /\ t \in Subscribers
    /\ bus[t].pc = "idle"
    /\ Len(chans) < MaxSubs
    /\ subsMu = Free
    /\ LET ch == Len(chans) + 1
           h == eventSubs[id]
           cap == IF h.arr = Nil THEN 0 ELSE Len(arrays[h.arr])
       IN /\ chans' = Append(chans, [buf |-> <<>>, closed |-> FALSE])
          /\ IF h.len < cap
               THEN /\ arrays' = [arrays EXCEPT ![h.arr][h.len + 1] = ch]
                    /\ eventSubs' = [eventSubs EXCEPT ![id].len = h.len + 1]
               ELSE LET newcap == IF cap = 0 THEN 1 ELSE 2 * cap
                        grown == [k \in 1..newcap |->
                                    IF k <= h.len THEN arrays[h.arr][k]
                                    ELSE IF k = h.len + 1 THEN ch ELSE Nil]
                    IN /\ arrays' = Append(arrays, grown)
                       /\ eventSubs' = [eventSubs EXCEPT
                             ![id] = [arr |-> Len(arrays) + 1, len |-> h.len + 1]]
          /\ bus' = [bus EXCEPT ![t] = [BusIdle EXCEPT !.pc = "ws_status", !.ch = ch]]
    /\ UNCHANGED <<subsMu, npub>>
    /\ UNCHANGED <<lifeVars, cacheVars, taskVars, bridgeVars>>

\* ---------------------------------------------------------- WebSocketHandler
\* status, info := GetStatus(id); _, qrBase64 := GetQRCode(id);
\* conn.WriteJSON(initialEvent): the first message on the connection is the
\* event of type "status" built from the instance as it is now ("not_found"
\* when the id is not registered).  The result of the write is not looked at.
StatusEvent(id) ==
    <<"status", id,
      IF instances[id] = Nil THEN "not_found" ELSE objs[instances[id]].Status>>

WsStatus(t, id) ==
    /\ t \in Subscribers
    /\ bus[t].pc = "ws_status"
    /\ MuFree
    /\ bus' = [bus EXCEPT ![t].pc = "open", ![t].out = <<StatusEvent(id)>>]
    /\ UNCHANGED <<eventSubs, arrays, chans, subsMu, npub>>
    /\ UNCHANGED <<lifeVars, cacheVars, taskVars, bridgeVars>>

\* -------------------------------------------------------------- Unsubscribe
\* an Unsubscribe that does not look for ch and cuts the list anyway
UnsubscribeFindAlways(t, id) ==
    /\ LET q == List(eventSubs[id])
       IN /\ bus' = [bus EXCEPT ![t].pc = "u_shift", ![t].old = q,
                                ![t].i = IF bus[t].ch \in Range(q)
                                           THEN IndexOf(q, bus[t].ch) ELSE 1]
          /\ subsMu' = t

\* Lock and the search of the loop: when ch is not in the list nothing
\* happens (the deferred Unlock runs); when it is at index i the caller goes
\* on to append(subs[:i], subs[i+1:]...), holding the lock
UnsubscribeFind(t, id) ==
    /\ LET q == List(eventSubs[id])
           ch == bus[t].ch
       IN IF ch \in Range(q)
            THEN /\ bus' = [bus EXCEPT ![t].pc = "u_shift", ![t].old = q,
                                       ![t].i = IndexOf(q, ch)]
                 /\ subsMu' = t
            ELSE /\ bus' = [bus EXCEPT ![t].n = @ + 1]
                 /\ subsMu' = subsMu

UnsubLock(t, id) ==
    /\ t \in Subscribers
    /\ bus[t].pc = "open"
    /\ bus[t].n < 2
    /\ subsMu = Free
    /\ UnsubscribeFind(t, id)
    /\ UNCHANGED <<eventSubs, arrays, chans, npub>>
    /\ UNCHANGED <<lifeVars, cacheVars, taskVars, bridgeVars>>

\* append(subs[:i], subs[i+1:]...) copies the tail one slot down, in the
\* backing array the publishers' snapshots share
UnsubShift(t, id) ==
    /\ bus[t].pc = "u_shift"
    /\ bus[t].i < eventSubs[id].len
    /\ LET h == eventSubs[id]
           i == bus[t].i
       IN arrays' = [arrays EXCEPT ![h.arr][i] = arrays[h.arr][i + 1]]
    /\ bus' = [bus EXCEPT ![t].i = @ + 1]
    /\ UNCHANGED <<eventSubs, chans, subsMu, npub>>
    /\ UNCHANGED <<lifeVars, cacheVars, taskVars, bridgeVars>>

\* m.eventSubs[id] = (the shortened slice); close(ch); Unlock
UnsubClose(t, id) ==
    /\ bus[t].pc = "u_shift"
    /\ bus[t].i >= eventSubs[id].len
    /\ eventSubs' = [eventSubs EXCEPT ![id].len = @ - 1]
    /\ chans' = [chans EXCEPT ![bus[t].ch].closed = TRUE]
    /\ subsMu' = Free
    /\ bus' = [bus EXCEPT ![t].pc = "open", ![t].n = @ + 1, ![t].i = 0,
                          ![t].old = <<>>]
    /\ UNCHANGED <<arrays, npub>>
    /\ UNCHANGED <<lifeVars, cacheVars, taskVars, bridgeVars>>

\* case event := <-eventChan: conn.WriteJSON(event): the handler receives
\* from its channel and forwards the event to its connection
Receive(t) ==
    /\ t \in Subscribers
    /\ bus[t].pc = "open"
    /\ bus[t].n = 0
    /\ chans[bus[t].ch].buf # <<>>
    /\ chans' = [chans EXCEPT ![bus[t].ch].buf = Tail(@)]
    /\ bus' = [bus EXCEPT ![t].out = Append(@, Head(chans[bus[t].ch].buf))]
    /\ UNCHANGED <<eventSubs, arrays, subsMu, npub>>
    /\ UNCHANGED <<lifeVars, cacheVars, taskVars, bridgeVars>>

\* the subscriber drops the channel it has unsubscribed; what was still
\* waiting in it is garbage
Leave(t) ==
    /\ t \in Subscribers
    /\ bus[t].pc = "open"
    /\ bus[t].n > 0
    /\ bus' = [bus EXCEPT ![t] = BusIdle]
    /\ chans' = [chans EXCEPT ![bus[t].ch].buf = <<>>]
    /\ UNCHANGED <<eventSubs, arrays, subsMu, npub>>
    /\ UNCHANGED <<lifeVars, cacheVars, taskVars, bridgeVars>>

\* ------------------------------------------------------------- publishEvent
\* RLock; subs := m.eventSubs[evt.InstanceID]; RUnlock.  The event is the
\* npub-th published.
PubSnapshot(id) ==
    /\ bus[Publisher].pc = "idle"
    /\ npub < MaxPub
    /\ subsMu = Free
    /\ npub' = npub + 1
    /\ bus' = [bus EXCEPT ![Publisher] =
                 [BusIdle EXCEPT !.pc = IF eventSubs[id].len = 0 THEN "done" ELSE "p_range",
                                 !.e = npub + 1, !.snap = eventSubs[id],
                                 !.old = List(eventSubs[id]), !.i = 1]]
    /\ UNCHANGED <<eventSubs, arrays, chans, subsMu>>
    /\ UNCHANGED <<lifeVars, cacheVars, taskVars, bridgeVars>>

\* for _, ch := range subs: the element is read from the backing array
PubRange ==
    /\ bus[Publisher].pc = "p_range"
    /\ bus' = [bus EXCEPT ![Publisher].pc = "p_send",
                          ![Publisher].ch = arrays[bus[Publisher].snap.arr][bus[Publisher].i]]
    /\ UNCHANGED <<eventSubs, arrays, chans, subsMu, npub>>
    /\ UNCHANGED <<lifeVars, cacheVars, taskVars, bridgeVars>>

\* select { case ch <- evt: default: }: a send on a closed channel panics, a
\* channel with room takes the event, a full one is skipped
SelectSend(ch, e) ==
    IF chans[ch].closed THEN "panic"
    ELSE IF Len(chans[ch].buf) < ChanCap THEN "sent" ELSE "skipped"

PubSend ==
    /\ bus[Publisher].pc = "p_send"
    /\ LET me == bus[Publisher]
           out == SelectSend(me.ch, me.e)
           last == me.i >= me.snap.len
       IN /\ chans' = IF out = "sent"
                        THEN [chans EXCEPT ![me.ch].buf = Append(@, me.e)]
                        ELSE chans
          /\ bus' = [bus EXCEPT
                ![Publisher].pc = IF out = "panic" THEN "panic"
                                  ELSE IF last THEN "done" ELSE "p_range",
                ![Publisher].i = me.i + 1,
                ![Publisher].sent = IF out = "sent" THEN Append(me.sent, me.ch)
                                    ELSE me.sent,
                ![Publisher].skip = IF out = "skipped" THEN me.skip \cup {me.ch}
                                    ELSE me.skip]
    /\ UNCHANGED <<eventSubs, arrays, subsMu, npub>>
    /\ UNCHANGED <<lifeVars, cacheVars, taskVars, bridgeVars>>

\* publishEvent has returned, or the panic has unwound its goroutine
PubReturn ==
    /\ bus[Publisher].pc \in {"done", "panic"}
    /\ bus' = [bus EXCEPT ![Publisher] = BusIdle]
    /\ UNCHANGED <<eventSubs, arrays, chans, subsMu, npub>>
    /\ UNCHANGED <<lifeVars, cacheVars, taskVars, bridgeVars>>

\* The bus starts empty, or with the channel of a subscriber that has stopped
\* reading: it is registered and Backlog events are waiting in it (numbered
\* up to 0; the events of the run are numbered from 1).
InitBusEmpty ==
    /\ eventSubs = [id \in IDs |-> NoSlice]
    /\ arrays = <<>>
    /\ chans = <<>>
    /\ npub = 0

InitBusStalled ==
    /\ eventSubs = [id \in IDs |-> [arr |-> 1, len |-> 1]]
    /\ arrays = << <<1>> >>
    /\ chans = << [buf |-> [k \in 1..Backlog |-> k - Backlog], closed |-> FALSE] >>
    /\ npub = 0

InitBusThreads ==
    /\ subsMu = Free
    /\ bus = [t \in BusThreads |-> BusIdle]

NextBus ==
    \/ \E t \in Subscribers, id \in IDs : Subscribe(t, id)
    \/ \E t \in Subscribers, id \in IDs : WsStatus(t, id)
    \/ \E t \in Subscribers, id \in IDs : UnsubLock(t, id)
    \/ \E t \in Subscribers, id \in IDs : UnsubShift(t, id)
    \/ \E t \in Subscribers, id \in IDs : UnsubClose(t, id)
    \/ \E t \in Subscribers : Receive(t)
    \/ \E t \in Subscribers : Leave(t)
    \/ \E id \in IDs : PubSnapshot(id)
    \/ PubRange
    \/ PubSend
    \/ PubReturn

InitSpecBus ==
    /\ InitLife /\ InitCache /\ InitTasks /\ InitBridge /\ InitBusThreads
    /\ InitBusEmpty \/ InitBusStalled

SpecBus == InitSpecBus /\ [][NextBus]_vars

\* =====================================================================
\* Properties of the registry and the lifecycle
\* =====================================================================

\* C1: however many GetOrCreateInstance(id) calls run concurrently, they all
\* return the same Instance and the registry holds exactly that one for the
\* id: every Instance that was created and not deleted by Logout is the one
\* registered under its id, and every caller that holds such an Instance
\* holds the registered one.
C1_OneInstancePerId ==
    /\ \A p \in Ptrs : ~objs[p].Removed => instances[objs[p].ID] = p
    /\ \A t, u \in Threads :
         /\ thr[t].inst # Nil /\ thr[u].inst # Nil
         /\ thr[t].id = thr[u].id
         /\ ~objs[thr[t].inst].Removed /\ ~objs[thr[u].inst].Removed
         => thr[t].inst = thr[u].inst

\* two concurrent Connect calls have both returned from GetOrCreateInstance,
\* with the same Instance
C1_Witness ==
    /\ thr["r1"].pc = "c_read" /\ thr["r2"].pc = "c_read"
    /\ thr["r1"].id = thr["r2"].id
    /\ thr["r1"].inst = thr["r2"].inst
    /\ thr["r1"].inst = instances[thr["r1"].id]

\* C2: after Logout(id) has returned success, id is absent from the registry
\* and from the SessionMapping, in memory and in the persisted file.
C2_LogoutRemovesMapping ==
    \A t \in Threads :
        thr[t].pc = "done" /\ thr[t].op = "Logout" /\ thr[t].res = "ok"
        => /\ instances[thr[t].id] = Nil
           /\ mapping[thr[t].id] = NoJID
           /\ mappingFile[thr[t].id] = NoJID

\* a Connect call of t returns in this step
ConnectReturns(t) ==
    /\ thr[t].op = "Connect"
    /\ thr[t].pc \in {"c_read", "c_conn", "c_fail"}
    /\ thr'[t].pc = "done"

\* C3: a Connect(id) that follows a Disconnect(id), with no other operation
\* of the caller in between, runs on the Instance the Disconnect ran on, with
\* the same device handle and the same device identity, and the
\* SessionMapping entry of id is the one the Disconnect left; the Instance is
\* still the registered one.
C3_DisconnectConnectKeepsIdentity ==
    [][\A t \in Threads :
         ConnectReturns(t) /\ thr[t].prev # NoPrev
         => /\ thr[t].inst = thr[t].prev.inst
            /\ instances'[thr[t].id] = thr[t].prev.inst
            /\ objs'[thr[t].inst].Device = thr[t].prev.dev
            /\ objs'[thr[t].inst].StoreID = thr[t].prev.jid
            /\ mapping'[thr[t].id] = thr[t].prev.map]_vars

\* a Connect that followed the Disconnect of a paired instance has returned
\* success
C3_Witness ==
    \E t \in Threads :
        /\ thr[t].pc = "done" /\ thr[t].op = "Connect" /\ thr[t].res = "ok"
        /\ thr[t].prev # NoPrev
        /\ thr[t].prev.jid # NoJID

\* C9: an outbound operation called while the status of the instance is not
\* connected returns the not-connected error and makes no call to the
\* protocol library.
C9_NotConnectedNoCall ==
    \A t \in Threads :
        thr[t].op \in Kinds /\ thr[t].st0 \notin {"-", "connected"}
        => /\ thr[t].calls = 0
           /\ thr[t].pc = "done" => thr[t].res = "err_notconnected"

\* a step of Connect(id) taken while the status of the registered instance
\* is connected: the entry into GetOrCreateInstance, or the status check
ConnectOnConnected(t) ==
    /\ thr'[t] # thr[t]
    /\ \/ /\ thr[t].pc = "idle" /\ thr'[t].op = "Connect"
          /\ instances[thr'[t].id] # Nil
          /\ objs[instances[thr'[t].id]].Status = "connected"
       \/ /\ thr[t].pc = "c_read"
          /\ objs[thr[t].inst].Status = "connected"

\* C10: Connect(id) on an instance whose status is connected is a no-op that
\* returns the registered instance: GetOrCreateInstance hands out the
\* registered Instance, and the status check returns it at once; neither step
\* calls the library, writes a field of any Instance, touches the registry or
\* the mapping, or publishes an event.
C10_ConnectWhenConnectedIsNoOp ==
    [][\A t \in Threads :
         ConnectOnConnected(t)
         => /\ thr'[t].inst = instances[thr'[t].id]
            /\ thr[t].pc = "idle" => thr'[t].pc = "c_read"
            /\ thr[t].pc = "c_read" =>
                 thr'[t].pc = "done" /\ thr'[t].res = "ok_already"
            /\ libCall' = NoCall
            /\ evt' = NoEvt
            /\ UNCHANGED <<objs, instances, mapping, mappingFile, container>>]_vars

\* a Connect has returned the connected instance through the early return
C10_Witness ==
    \E t \in Threads :
        /\ thr[t].pc = "done" /\ thr[t].op = "Connect"
        /\ thr[t].res = "ok_already"
        /\ thr[t].inst = instances[thr[t].id]
        /\ objs[thr[t].inst].Status = "connected"

\* =====================================================================
\* Properties of the event bus
\* =====================================================================
Full(c) == Len(chans[c].buf) >= ChanCap
CallOver == bus[Publisher].pc \in {"done", "panic"}

\* C5: every publishEvent call completes without blocking and without an
\* error, whatever the subscribers do.  The select with a default never
\* blocks; the call fails when it panics.
C5_PublishNeverFails ==
    bus[Publisher].pc # "panic"

\* C6: with subscribers A and B registered for the id, A's channel full and
\* never drained, an event published while B's channel has free capacity is
\* delivered to B: when the call is over the event was put on B's channel.
C6_FullSubscriberIsolated ==
    CallOver =>
      \A id \in IDs : \A A, B \in Registered(id) :
         /\ A # B
         /\ A \in Range(bus[Publisher].old) /\ B \in Range(bus[Publisher].old)
         /\ ~chans[A].closed /\ ~chans[B].closed
         /\ Full(A) /\ ~Full(B)
         => B \in Range(bus[Publisher].sent)

\* C7: one publish puts the event on the channel of a registered subscriber
\* at most once, also while Subscribe and Unsubscribe run.
C7_AtMostOncePerPublish ==
    \A k, j \in DOMAIN bus[Publisher].sent :
       k # j => bus[Publisher].sent[k] # bus[Publisher].sent[j]

\* an Unsubscribe call of t returns in this step
UnsubscribeReturns(t) == bus'[t].n = bus[t].n + 1

\* C8: Unsubscribe(id, ch) removes ch from the list of the id and closes it,
\* and leaves every other channel registered, in order, and open; a second
\* Unsubscribe with the same channel changes nothing.
C8_UnsubscribeRemovesOnlyItsChannel ==
    [][\A t \in Subscribers : \A id \in IDs :
         UnsubscribeReturns(t) =>
           IF bus[t].n = 0
             THEN /\ bus[t].ch \in Range(bus[t].old)
                  /\ List(eventSubs[id])' =
                       Without(bus[t].old, IndexOf(bus[t].old, bus[t].ch))
                  /\ chans'[bus[t].ch].closed
                  /\ \A c \in Registered(id)' : ~chans'[c].closed
                  /\ \A c \in DOMAIN chans :
                       c # bus[t].ch => chans'[c] = chans[c]
             ELSE /\ List(eventSubs[id])' = List(eventSubs[id])
                  /\ chans' = chans
                  /\ bus[t].pc = "open"]_vars

\* a subscriber has called Unsubscribe twice while another channel is registered
C8_Witness ==
    \E t \in Subscribers, id \in IDs :
       /\ bus[t].n = 2
       /\ chans[bus[t].ch].closed
       /\ Registered(id) # {}
       /\ \A c \in Registered(id) : ~chans[c].closed /\ c # bus[t].ch

\* =====================================================================
\* Message cache (SpecCache)
\* =====================================================================
Chats == {"busy", "quiet"}
StoreBound(chat) == IF chat = "busy" THEN MaxStore ELSE MaxCold
Limits == {-1, 0, 1, CacheCap}
NoRead == [id |-> "", chat |-> "", limit |-> 0, res |-> <<>>]

\* msgs[len(msgs)-n:]
LastN(msgs, n) == SubSeq(msgs, Len(msgs) - n + 1, Len(msgs))

\* the list of a chat; a missing map entry reads as the nil slice
ChatList(id, chat) ==
    IF chat \in DOMAIN messages[id] THEN messages[id][chat] ELSE <<>>

\* an eviction that keeps the head of the list: msgs[:500]
EvictKeepsOldest(msgs) ==
    IF Len(msgs) > CacheCap THEN SubSeq(msgs, 1, CacheCap) ELSE msgs

\* if len(msgs) > 500 { msgs = msgs[len(msgs)-500:] }
Evict(msgs) ==
    IF Len(msgs) > CacheCap THEN LastN(msgs, CacheCap) ELSE msgs

\* storeMessage, under m.messagesMu.  The message is named by its arrival
\* number for the key.
\* m.messages after the list of the chat has become msgs
WithChat(id, chat, msgs) ==
    [messages EXCEPT ![id] =
       [c \in DOMAIN messages[id] \cup {chat} |->
          IF c = chat THEN msgs ELSE messages[id][c]]]

\* m.messages after storeMessage(id, chat, msg)
InsertedMsg(id, chat, msg) ==
    WithChat(id, chat, Evict(Append(ChatList(id, chat), msg)))

Inserted(id, chat) == InsertedMsg(id, chat, stored[id][chat] + 1)

storeMessage(id, chat) ==
    /\ stored[id][chat] < StoreBound(chat)
    /\ messages' = Inserted(id, chat)
    /\ stored' = [stored EXCEPT ![id][chat] = @ + 1]
    /\ rd' = NoRead
    /\ UNCHANGED <<lifeVars, busVars, taskVars, bridgeVars>>

\* GetChatMessages, under m.messagesMu in read mode: the last limit messages
\* when limit > 0 and the list is longer, the whole list otherwise
GetChatMessages(id, chat, limit) ==
    /\ LET msgs == ChatList(id, chat)
       IN rd' = [id |-> id, chat |-> chat, limit |-> limit,
                 res |-> IF limit > 0 /\ Len(msgs) > limit
                           THEN LastN(msgs, limit) ELSE msgs]
    /\ UNCHANGED <<messages, stored>>
    /\ UNCHANGED <<lifeVars, busVars, taskVars, bridgeVars>>

NextCache ==
    \/ \E id \in IDs, chat \in Chats : storeMessage(id, chat)
    \/ \E id \in IDs, chat \in Chats, limit \in Limits :
          GetChatMessages(id, chat, limit)

SpecCache == Init /\ [][NextCache]_vars

\* the n most recent of the first k arrivals, oldest first
Recent(k, n) == [j \in 1..n |-> k - n + j]
Min(x, y) == IF x < y THEN x ELSE y

\* C4: the cache of a chat holds at most CacheCap messages, the most recent
\* ones in arrival order, and a read returns them: after CacheCap + 1 inserts
\* a read returns the messages 2 .. CacheCap + 1.
C4_CacheKeepsMostRecent ==
    /\ \A id \in IDs : \A chat \in DOMAIN messages[id] :
          /\ Len(messages[id][chat]) <= CacheCap
          /\ messages[id][chat] =
               Recent(stored[id][chat], Min(stored[id][chat], CacheCap))
    /\ rd # NoRead /\ rd.limit <= 0 =>
          rd.res = Recent(stored[rd.id][rd.chat],
                          Min(stored[rd.id][rd.chat], CacheCap))
    /\ rd # NoRead /\ rd.limit > 0 =>
          rd.res = Recent(stored[rd.id][rd.chat],
                          Min(stored[rd.id][rd.chat], Min(rd.limit, CacheCap)))

\* CacheCap + 1 messages were stored for a chat and a read of the whole chat
\* returned CacheCap messages, the first of them the second arrival
C4_Witness ==
    /\ rd # NoRead
    /\ rd.limit = 0
    /\ stored[rd.id][rd.chat] = CacheCap + 1
    /\ Len(rd.res) = CacheCap
    /\ rd.res[1] = 2
    /\ rd.res[CacheCap] = CacheCap + 1

\* =====================================================================
\* Properties of the lifecycle operations
\* =====================================================================

\* C11: a Connect(id) on an instance that is not connected writes the status
\* connecting before it invokes the library connect (the call is made only
\* from the position that the write leads to), and when the library connect
\* fails it returns an error with the status disconnected.
C11_ConnectingThenConnectOrRevert ==
    [][\A t \in Threads :
         /\ thr[t].pc = "c_set" /\ thr'[t] # thr[t]
            => /\ objs'[thr[t].inst].Status = "connecting"
               /\ thr'[t].pc = "c_conn"
               /\ libCall' = NoCall
         /\ thr'[t].pc = "c_conn" /\ thr[t].pc # "c_conn"
            => thr[t].pc = "c_set"
         /\ thr[t].op = "Connect" /\ thr'[t] # thr[t] /\ libCall' = "Connect"
            => thr[t].pc = "c_conn"
         /\ thr[t].pc = "c_fail" /\ thr'[t] # thr[t]
            => /\ thr'[t].pc = "done" /\ thr'[t].res = "err_connect"
               /\ objs'[thr[t].inst].Status = "disconnected"
         /\ thr'[t].op = "Connect" /\ thr'[t].pc = "done"
            /\ thr'[t].res \in {"ok", "ok_already"} /\ thr[t].pc # "done"
            => thr[t].pc \in {"c_read", "c_conn"}]_vars

\* a Connect has returned the error of a failed library connect and the
\* registered instance is disconnected
C11_Witness ==
    \E t \in Threads :
        /\ thr[t].pc = "done" /\ thr[t].op = "Connect"
        /\ thr[t].res = "err_connect"
        /\ instances[thr[t].id] # Nil
        /\ objs[instances[thr[t].id]].Status = "disconnected"

\* a step of ConnectWithPairingCode(id) taken on an instance that is connected
\* (the entry into GetOrCreateInstance or the status check) or that has a
\* paired identity (the entry or the identity check)
PairRefused(t) ==
    /\ thr'[t] # thr[t]
    /\ \/ /\ thr[t].pc = "idle" /\ thr'[t].op = "Pair"
          /\ instances[thr'[t].id] # Nil
          /\ \/ objs[instances[thr'[t].id]].Status = "connected"
             \/ objs[instances[thr'[t].id]].StoreID # NoJID
       \/ /\ thr[t].pc = "p_read"
          /\ objs[thr[t].inst].Status = "connected"
       \/ /\ thr[t].pc = "p_store"
          /\ objs[thr[t].inst].StoreID # NoJID

\* C12: ConnectWithPairingCode(id, phone) returns an error when the instance
\* is already connected or already has a paired identity, and then it calls
\* neither the library connect nor the pairing request, changes no status (no
\* field of any Instance) and publishes no pairing_code event.
C12_PairingRefusedWhenConnectedOrPaired ==
    [][\A t \in Threads :
         PairRefused(t)
         => /\ thr[t].pc = "idle" => thr'[t].pc = "p_read"
            /\ thr[t].pc = "p_read" =>
                 thr'[t].pc = "done" /\ thr'[t].res = "err_connected"
            /\ thr[t].pc = "p_store" =>
                 thr'[t].pc = "done" /\ thr'[t].res = "err_session"
            /\ libCall' = NoCall
            /\ evt' = NoEvt
            /\ UNCHANGED <<objs, instances, mapping, mappingFile, container>>]_vars

\* a ConnectWithPairingCode on a paired, not connected instance has returned
\* the error
C12_Witness ==
    \E t \in Threads :
        /\ thr[t].pc = "done" /\ thr[t].op = "Pair"
        /\ thr[t].res = "err_session"
        /\ instances[thr[t].id] # Nil
        /\ objs[instances[thr[t].id]].StoreID # NoJID
        /\ objs[instances[thr[t].id]].Status # "connected"

\* a step of Disconnect taken by t
DisconnectStep(t) ==
    /\ thr'[t] # thr[t]
    /\ \/ thr[t].pc = "idle" /\ thr'[t].op = "Disconnect"
       \/ thr[t].op = "Disconnect" /\ thr[t].pc \in {"d_disc", "d_set"}

\* C13: Disconnect(id) on a registered id tears the transport down and
\* returns with the status disconnected; no step of it touches the registry,
\* the identity of the instance or the SessionMapping (memory and file).  On
\* an unregistered id it returns the not-found error and changes nothing.
C13_DisconnectKeepsRegistryAndIdentity ==
    [][\A t \in Threads :
         DisconnectStep(t)
         => /\ UNCHANGED <<instances, mapping, mappingFile, container>>
            /\ \A p \in Ptrs : /\ objs'[p].StoreID = objs[p].StoreID
                               /\ objs'[p].Device = objs[p].Device
            /\ thr[t].pc = "idle" /\ instances[thr'[t].id] = Nil
               => /\ thr'[t].pc = "done" /\ thr'[t].res = "err_notfound"
                  /\ objs' = objs /\ libCall' = NoCall /\ evt' = NoEvt
            /\ thr[t].pc = "idle" /\ instances[thr'[t].id] # Nil
               => /\ thr'[t].pc = "d_disc" /\ thr'[t].inst = instances[thr'[t].id]
                  /\ objs' = objs
            /\ thr[t].pc = "d_disc"
               => /\ libCall' = "Disconnect" /\ ~objs'[thr[t].inst].Up
                  /\ thr'[t].pc = "d_set"
            /\ thr[t].pc = "d_set"
               => /\ thr'[t].pc = "done" /\ thr'[t].res = "ok"
                  /\ instances'[thr[t].id] = thr[t].inst
                  /\ objs'[thr[t].inst].Status = "disconnected"
                  /\ ~objs'[thr[t].inst].Up]_vars

\* a Disconnect of a paired instance has returned: the instance is registered,
\* disconnected, its transport down, its identity and mapping entry in place
C13_Witness ==
    \E t \in Threads :
        /\ thr[t].pc = "done" /\ thr[t].op = "Disconnect" /\ thr[t].res = "ok"
        /\ instances[thr[t].id] # Nil
        /\ LET o == objs[instances[thr[t].id]]
           IN /\ o.Status = "disconnected" /\ ~o.Up
              /\ o.StoreID # NoJID
              /\ mapping[thr[t].id] = o.StoreID

\* C15: in every reachable state every registered instance whose status is
\* connected has an entry for its id in the SessionMapping, in memory and in
\* the persisted file the restore at boot starts from.
C15_ConnectedHasMappingEntry ==
    \A id \in DOMAIN instances :
        instances[id] # Nil /\ objs[instances[id]].Status = "connected"
        => mapping[id] # NoJID /\ mappingFile[id] # NoJID

\* =====================================================================
\* Restore at boot (SpecRestore)
\* =====================================================================
\* the ids of the mapping file read at boot, the JIDs it may name, and an
\* entry that types.ParseJID rejects
BootIDs == {"a", "b"}
BootJIDs == {11, 12}
BadJID == -1
Booter == "t1"

\* a restore that stops at the first entry that fails
OnEntryFailureAbort == "r_end"
\* `continue`: the loop goes on with the next entry
OnEntryFailure == "r_loop"

\* for instanceID, jidStr := range m.mapping (in any order): ParseJID,
\* container.GetDevice, and for a device that loads the new Instance with its
\* handler registered
RestoreEntry(t) ==
    /\ thr[t].pc = "r_loop"
    /\ \E id \in thr[t].boot.todo, dbOk \in BOOLEAN :
         LET jid == mapping[id]
             loads == jid # BadJID /\ dbOk /\ jid \in container
             ptr == Len(objs) + 1
             rest == [thr[t].boot EXCEPT !.todo = @ \ {id}]
         IN IF loads
              THEN /\ objs' = Append(objs,
                         [NewInstance(id, ptr, jid) EXCEPT !.WANumber = jid,
                                                           !.WAName = "name"])
                   /\ thr' = [thr EXCEPT ![t].pc = "r_conn", ![t].id = id,
                                         ![t].inst = ptr, ![t].boot = rest]
              ELSE /\ objs' = objs
                   /\ thr' = [thr EXCEPT ![t].pc = OnEntryFailure, ![t].id = id,
                                ![t].boot = [rest EXCEPT !.skipped = @ \cup {id}]]
    /\ Quiet
    /\ UNCHANGED <<instances, mapping, mappingFile, container, mu>>
    /\ UNCHANGED <<busVars, cacheVars, taskVars, bridgeVars>>

\* client.Connect(); a failure is logged
RestoreConnect(t) ==
    /\ thr[t].pc = "r_conn"
    /\ \E ok \in BOOLEAN :
         IF ok THEN /\ objs' = SetField(thr[t].inst, "Up", TRUE)
                    /\ Goto(t, "r_status")
               ELSE /\ objs' = objs
                    /\ thr' = [thr EXCEPT ![t].pc = "r_reg",
                                 ![t].boot.connFailed = @ \cup {thr[t].id}]
    /\ evt' = NoEvt
    /\ libCall' = "Connect"
    /\ UNCHANGED <<instances, mapping, mappingFile, container, mu>>
    /\ UNCHANGED <<busVars, cacheVars, taskVars, bridgeVars>>

\* instance.Status = "connected"
RestoreStatus(t) ==
    /\ thr[t].pc = "r_status"
    /\ objs' = SetField(thr[t].inst, "Status", "connected")
    /\ Goto(t, "r_reg")
    /\ Quiet
    /\ UNCHANGED <<instances, mapping, mappingFile, container, mu>>
    /\ UNCHANGED <<busVars, cacheVars, taskVars, bridgeVars>>

\* m.instances[instanceID] = instance
RestoreRegister(t) ==
    /\ thr[t].pc = "r_reg"
    /\ instances' = [instances EXCEPT ![thr[t].id] = thr[t].inst]
    /\ thr' = [thr EXCEPT ![t].pc = "r_loop", ![t].inst = Nil]
    /\ Quiet
    /\ UNCHANGED <<objs, mapping, mappingFile, container, mu>>
    /\ UNCHANGED <<busVars, cacheVars, taskVars, bridgeVars>>

\* the range is exhausted: restoreSessions and NewManager return
RestoreEnd(t) ==
    /\ thr[t].pc = "r_loop"
    /\ thr[t].boot.todo = {}
    /\ Goto(t, "r_end")
    /\ Quiet
    /\ UNCHANGED <<instances, objs, mapping, mappingFile, container, mu>>
    /\ UNCHANGED <<busVars, cacheVars, taskVars, bridgeVars>>

\* NewManager after loadMapping: any mapping file over BootIDs, any set of
\* devices in the container, nothing registered
InitRestore ==
    /\ mapping \in [BootIDs -> {NoJID, BadJID} \cup BootJIDs]
    /\ mappingFile = mapping
    /\ container \in SUBSET BootJIDs
    /\ instances = [id \in BootIDs |-> Nil]
    /\ objs = <<>>
    /\ mu = Free
    /\ thr = [t \in Threads |->
                IF t = Booter
                  THEN [Idle EXCEPT !.op = "restore", !.pc = "r_loop",
                          !.boot = [todo |-> {id \in BootIDs : mapping[id] # NoJID},
                                    skipped |-> {}, connFailed |-> {}]]
                  ELSE Idle]
    /\ evt = NoEvt
    /\ libCall = NoCall
    /\ InitBus /\ InitCache /\ InitTasks /\ InitBridge

\* the restore loop, and the callbacks of the clients it has connected
NextRestore ==
    \/ RestoreEntry(Booter)
    \/ RestoreConnect(Booter)
    \/ RestoreStatus(Booter)
    \/ RestoreRegister(Booter)
    \/ RestoreEnd(Booter)
    \/ \E o \in Ptrs : CbConnected(o)
    \/ \E o \in Ptrs : CbDisconnected(o)
    \/ \E o \in Ptrs : CbLoggedOut(o)

SpecRestore == InitRestore /\ [][NextRestore]_vars

\* C14: the restore visits every entry of the SessionMapping: a failure of
\* one entry (invalid key, device load error, missing device, connect error)
\* ends that entry only.  When the restore is over no entry is left, every
\* entry was either given up for a load failure or is registered, every
\* Instance that was built is registered under its id, and an entry whose
\* connect attempt failed is registered with the status disconnected.
C14_RestoreVisitsEveryEntry ==
    thr[Booter].pc = "r_end" =>
      /\ thr[Booter].boot.todo = {}
      /\ \A id \in BootIDs :
           /\ mappingFile[id] # NoJID =>
                id \in thr[Booter].boot.skipped \/ instances[id] # Nil
           /\ id \in thr[Booter].boot.connFailed =>
                /\ instances[id] # Nil
                /\ objs[instances[id]].Status = "disconnected"
      /\ \A p \in Ptrs : instances[objs[p].ID] = p

\* the restore is over: one entry was given up, another one is registered
\* although its connect attempt failed
C14_Witness ==
    /\ thr[Booter].pc = "r_end"
    /\ \E id, other \in BootIDs :
         /\ id \in thr[Booter].boot.skipped
         /\ other \in thr[Booter].boot.connFailed
         /\ instances[other] # Nil
         /\ objs[instances[other]].Status = "disconnected"

\* the event type under which a status is published
EventOf(status) ==
    CASE status = "qr" -> "qr"
      [] status = "connected" -> "ready"
      [] status = "disconnected" -> "disconnected"
      [] OTHER -> status

\* C16: during a first-time Connect of an unpaired id a subscriber observes
\* the status transitions disconnected -> connecting -> qr -> connected as
\* Events: every step that changes the status of an instance that is being
\* connected hands the event of the new status to publishEvent, the qr event
\* with a non-empty payload and the connected event with a non-empty number.
C16_StatusTransitionsArePublished ==
    [][\A o \in Ptrs :
         objs'[o].Status # objs[o].Status
         /\ objs'[o].Status \in {"connecting", "qr", "connected"}
         => /\ evt' = <<EventOf(objs'[o].Status), objs[o].ID>>
            /\ objs'[o].Status = "qr" => objs'[o].QRCode # ""
            /\ objs'[o].Status = "connected" => objs'[o].WANumber # NoJID]_vars

\* a lifecycle operation is called by t in this step, on an id that is not in
\* the registry
CalledOnUnknown(t, ops) ==
    /\ thr[t].pc = "idle" /\ thr'[t].pc # "idle"
    /\ thr'[t].op \in ops
    /\ instances[thr'[t].id] = Nil

\* C17 as stated: every lifecycle operation (Connect, ConnectWithPairingCode,
\* Disconnect, Logout) called with an id that is not in the registry returns
\* the not-found error and leaves the registry unchanged.
C17_UnknownIdIsNotFound ==
    [][\A t \in Threads :
         CalledOnUnknown(t, {"Connect", "Pair", "Disconnect", "Logout"})
         => /\ thr'[t].pc = "done" /\ thr'[t].res = "err_notfound"
            /\ instances' = instances]_vars

\* C17, amended: Disconnect and Logout called with an id that is not in the
\* registry return the not-found error and change nothing; Connect and
\* ConnectWithPairingCode never return it: they go on to create an Instance
\* and register it under the id.
C17_UnknownIdNotFoundOrCreated ==
    [][\A t \in Threads :
         /\ CalledOnUnknown(t, {"Disconnect", "Logout"})
            => /\ thr'[t].pc = "done" /\ thr'[t].res = "err_notfound"
               /\ libCall' = NoCall /\ evt' = NoEvt
               /\ UNCHANGED <<instances, objs, mapping, mappingFile, container>>
         /\ CalledOnUnknown(t, {"Connect", "Pair"})
            => thr'[t].pc = "goc_create" /\ instances' = instances
         /\ thr[t].pc = "goc_create" /\ thr'[t] # thr[t]
            => /\ instances[thr[t].id] = Nil
               /\ instances'[thr[t].id] = Len(objs) + 1
               /\ thr'[t].inst = Len(objs) + 1
               /\ objs'[Len(objs) + 1].ID = thr[t].id
         /\ thr'[t].res = "err_notfound" /\ thr[t].res # "err_notfound"
            => thr'[t].op \notin {"Connect", "Pair"}]_vars

\* a Logout of an id that is not registered has returned the not-found error
C17_Witness ==
    \E t \in Threads :
        /\ thr[t].pc = "done" /\ thr[t].op = "Logout"
        /\ thr[t].res = "err_notfound"
        /\ instances[thr[t].id] = Nil


\* the handler of t is serving its connection: it has subscribed and has not
\* started to return
Serving(t) == bus[t].pc \in {"ws_status", "open"} /\ bus[t].n = 0

\* the events t has forwarded after its first message
Forwarded(t) == IF bus[t].out = <<>> THEN <<>> ELSE Tail(bus[t].out)

\* C18: on a websocket connection the first message is the status snapshot
\* and the events forwarded after it are in publication order; when a
\* publishEvent call has returned, every handler that was subscribed before
\* the call and is still serving, and whose channel was not skipped as full,
\* has the event in its channel or has forwarded it: no event is missed.
C18_SnapshotThenEveryEvent ==
    /\ \A t \in Subscribers :
         bus[t].out # <<>>
         => /\ bus[t].out[1][1] = "status"
            /\ \A j, k \in DOMAIN Forwarded(t) :
                 j < k => Forwarded(t)[j] <= Forwarded(t)[k]
    /\ bus[Publisher].pc = "done"
       => \A t \in Subscribers :
            /\ Serving(t)
            /\ bus[t].ch \in Range(bus[Publisher].old)
            /\ bus[t].ch \notin bus[Publisher].skip
            => \/ bus[Publisher].e \in Range(chans[bus[t].ch].buf)
               \/ bus[Publisher].e \in Range(Forwarded(t))


\* =====================================================================
\* Message and call handlers, settings, detached goroutines (SpecEvents)
\* =====================================================================
MaxIn == 2

\* an event the library dispatched: its kind, the Instance whose handler got
\* it, for a message the chat, whether it is a group message and whether the
\* account sent it, and the settings its handler read (IgnoreGroups and
\* ReadMessages for a message, RejectCalls for a call)
Dispatched(kind, o, chat, isGroup, fromMe) ==
    [kind |-> kind, o |-> o, chat |-> chat, isGroup |-> isGroup,
     fromMe |-> fromMe,
     ignore |-> kind = "message" /\ objs[o].IgnoreGroups,
     read |-> kind = "message" /\ objs[o].ReadMessages,
     reject |-> kind = "call" /\ objs[o].RejectCalls]

\* the chats messages arrive in
EventChats == {"quiet"}

\* the goroutine detached for the n-th dispatched event
Task(kind, o, n) == [kind |-> kind, o |-> o, ref |-> n]

\* ------------------------------------------------------------ the settings
\* SetRejectCalls / SetIgnoreGroups / SetReadMessages: GetInstance, then the
\* field is written under inst.mu; an unknown id returns without effect
SetSetting(id, field, value) ==
    /\ MuFree
    /\ objs' = IF instances[id] = Nil THEN objs
               ELSE SetField(instances[id], field, value)
    /\ Quiet
    /\ UNCHANGED <<instances, mapping, mappingFile, container, mu, thr>>
    /\ UNCHANGED <<busVars, cacheVars, taskVars, bridgeVars>>

SetRejectCalls(id, value) == SetSetting(id, "RejectCalls", value)
SetIgnoreGroups(id, value) == SetSetting(id, "IgnoreGroups", value)
SetReadMessages(id, value) == SetSetting(id, "ReadMessages", value)

\* SetAlwaysOnline: the field is written under inst.mu; then, with the lock
\* released, `if value && inst.Client != nil && inst.Status == "connected"`
\* the presence is sent through the library (the result is dropped)
SetAlwaysOnline(id, value) ==
    /\ MuFree
    /\ objs' = IF instances[id] = Nil THEN objs
               ELSE SetField(instances[id], "AlwaysOnline", value)
    /\ evt' = NoEvt
    /\ libCall' = IF instances[id] # Nil /\ value
                      /\ objs[instances[id]].Status = "connected"
                    THEN "SendPresence" ELSE NoCall
    /\ UNCHANGED <<instances, mapping, mappingFile, container, mu, thr>>
    /\ UNCHANGED <<busVars, cacheVars, taskVars, bridgeVars>>

\* ----------------------------------------------------------- events.Message
\* a handler that marks every message read, its own included
WantsReceiptOwnToo(readMessages, fromMe) == readMessages

\* if readMessages && !v.Info.IsFromMe
WantsReceipt(readMessages, fromMe) == readMessages /\ ~fromMe

\* a handler without the check of the setting
SuppressesNothing(ignoreGroups, isGroup) == FALSE

\* if ignoreGroups && v.Info.IsGroup { return }
Suppressed(ignoreGroups, isGroup) == ignoreGroups /\ isGroup

\* The settings are read under inst.mu; a group message of an instance that
\* ignores groups ends the handler; otherwise the message is formatted and
\* stored under its chat, the read receipt is left to a goroutine and the
\* "message" event is published.  A live message is named by its timestamp,
\* the number of the dispatch: the server hands live messages over in order.
CbMessage(o) ==
    /\ objs[o].Up /\ objs[o].StoreID # NoJID
    /\ Len(delivered) < MaxIn
    /\ \E chat \in EventChats, isGroup \in BOOLEAN, fromMe \in BOOLEAN :
         LET id == objs[o].ID
             n == Len(delivered) + 1
         IN /\ delivered' = Append(delivered,
                                   Dispatched("message", o, chat, isGroup, fromMe))
            /\ IF Suppressed(objs[o].IgnoreGroups, isGroup)
                 THEN /\ Quiet
                      /\ UNCHANGED <<messages, stored, tasks>>
                 ELSE /\ messages' = InsertedMsg(id, chat, n)
                      /\ stored' = [stored EXCEPT ![id][chat] = @ + 1]
                      /\ tasks' = IF WantsReceipt(objs[o].ReadMessages, fromMe)
                                    THEN tasks \cup {Task("MarkRead", o, n)}
                                    ELSE tasks
                      /\ Publishes("message", id)
    /\ rd' = NoRead
    /\ UNCHANGED finished
    /\ UNCHANGED <<instances, objs, mapping, mappingFile, container, mu, thr>>
    /\ UNCHANGED <<busVars, bridgeVars>>

\* --------------------------------------------------------- events.CallOffer
\* a handler that rejects every call
RejectWantedAlways(rejectCalls) == TRUE

\* if rejectCalls { go func() { ... } }
RejectWanted(rejectCalls) == rejectCalls

\* The "call" event is published, then RejectCalls is read under inst.mu and,
\* when it is set, the reject is left to a goroutine that sleeps 500 ms first.
CbCallOffer(o) ==
    /\ objs[o].Up /\ objs[o].StoreID # NoJID
    /\ Len(delivered) < MaxIn
    /\ delivered' = Append(delivered, Dispatched("call", o, "", FALSE, FALSE))
    /\ tasks' = IF RejectWanted(objs[o].RejectCalls)
                  THEN tasks \cup {Task("RejectCall", o, Len(delivered) + 1)}
                  ELSE tasks
    /\ Publishes("call", objs[o].ID)
    /\ UNCHANGED finished
    /\ UNCHANGED <<instances, objs, mapping, mappingFile, container, mu, thr>>
    /\ UNCHANGED <<busVars, cacheVars, bridgeVars>>

\* ------------------------------------------------------ detached goroutines
\* The goroutine makes its library call and ends; an error is logged and
\* nothing else.
Detached(kind) ==
    \E task \in tasks, ok \in BOOLEAN :
       /\ task.kind = kind
       /\ tasks' = tasks \ {task}
       /\ finished' = finished \cup
             {[kind |-> kind, o |-> task.o, ref |-> task.ref, ok |-> ok]}
       /\ libCall' = kind
       /\ evt' = NoEvt
       /\ UNCHANGED delivered
       /\ UNCHANGED <<instances, objs, mapping, mappingFile, container, mu, thr>>
       /\ UNCHANGED <<busVars, cacheVars, bridgeVars>>

\* go func() { inst.Client.MarkRead(...) }()
GoMarkRead == Detached("MarkRead")

\* go func() { time.Sleep(500 * time.Millisecond); inst.Client.RejectCall(...) }()
GoRejectCall == Detached("RejectCall")

\* The instance "a" is registered, paired and connected, with the default
\* settings, and no caller is inside an operation.
InitEvents ==
    /\ instances = [id \in IDs |-> 1]
    /\ objs = << [NewInstance("a", 1, 1) EXCEPT !.Status = "connected",
                     !.WANumber = 1, !.WAName = "name", !.Up = TRUE] >>
    /\ mapping = [id \in IDs |-> 1]
    /\ mappingFile = mapping
    /\ container = {1}
    /\ mu = Free
    /\ thr = [t \in Threads |-> Idle]
    /\ evt = NoEvt
    /\ libCall = NoCall
    /\ InitBus /\ InitCache /\ InitTasks /\ InitBridge

\* the handlers and their goroutines, the settings being toggled and a caller
\* that disconnects the instance
NextEvents ==
    \/ \E id \in IDs, v \in BOOLEAN : SetRejectCalls(id, v)
    \/ \E id \in IDs, v \in BOOLEAN : SetIgnoreGroups(id, v)
    \/ \E id \in IDs, v \in BOOLEAN : SetReadMessages(id, v)
    \/ \E id \in IDs, v \in BOOLEAN : SetAlwaysOnline(id, v)
    \/ \E o \in Ptrs : CbMessage(o)
    \/ \E o \in Ptrs : CbCallOffer(o)
    \/ GoMarkRead
    \/ GoRejectCall
    \/ \E t \in Callers, id \in IDs : StartDisconnect(t, id)
    \/ \E t \in Callers : DDisc(t)
    \/ \E t \in Callers : DSet(t)
    \/ \E t \in Callers : Return(t)

SpecEvents == InitEvents /\ [][NextEvents]_vars

\* the n-th dispatched event was a ...
IsCall(q, n) == q[n].kind = "call"
IsMessage(q, n) == q[n].kind = "message"

\* the goroutines detached for the n-th event that are still to run, and those
\* that have made their call
Pending(ts, kind, n) == {x \in ts : x.kind = kind /\ x.ref = n}
Made(fs, kind, n) == {x \in fs : x.kind = kind /\ x.ref = n}

\* this step is the handler of a newly dispatched event of the kind
Handles(kind) ==
    /\ Len(delivered') = Len(delivered) + 1
    /\ delivered'[Len(delivered')].kind = kind

MessageHandled(n) ==
    LET m == delivered'[n]
        id == objs[m.o].ID
    IN /\ messages' = WithChat(id, m.chat, Evict(Append(ChatList(id, m.chat), n)))
       /\ stored' = [stored EXCEPT ![id][m.chat] = @ + 1]
       /\ evt' = <<"message", id>>
       /\ libCall' = NoCall
       /\ m.read = objs[m.o].ReadMessages
       /\ tasks' = IF m.read /\ ~m.fromMe
                     THEN tasks \cup {Task("MarkRead", m.o, n)} ELSE tasks

\* a read receipt is dispatched by a detached goroutine only, once per
\* message, and the dispatch, failed or not, changes neither the cache nor
\* what was published nor the instances nor any caller
ReceiptDetached ==
    /\ libCall' = "MarkRead"
       => /\ \E task \in tasks :
               /\ task.kind = "MarkRead"
               /\ tasks' = tasks \ {task}
               /\ Made(finished, "MarkRead", task.ref) = {}
          /\ evt' = NoEvt
          /\ UNCHANGED <<messages, stored, delivered, thr, instances, objs>>
    /\ \A n \in DOMAIN delivered' :
         IsMessage(delivered', n)
         => LET m == delivered'[n]
            IN Cardinality(Pending(tasks', "MarkRead", n))
                 + Cardinality(Made(finished', "MarkRead", n))
               = IF ~Suppressed(m.ignore, m.isGroup) /\ m.read /\ ~m.fromMe
                   THEN 1 ELSE 0

\* C20 as stated: a Message callback inserts the message into the cache and
\* publishes one message event; an asynchronous read receipt is dispatched if
\* and only if readMessages is enabled and the message is not self-sent, and
\* a failure of that dispatch changes neither the cache insertion nor the
\* published event nor any caller's result.
C20_MessageCachedPublished ==
    [][/\ Handles("message") => MessageHandled(Len(delivered'))
       /\ \A n \in DOMAIN delivered' :
            IsMessage(delivered', n)
            => Cardinality(Pending(tasks', "MarkRead", n))
                 + Cardinality(Made(finished', "MarkRead", n))
               = IF delivered'[n].read /\ ~delivered'[n].fromMe THEN 1 ELSE 0]_vars

\* C20, amended: a Message callback that is not suppressed (the message is
\* not a group message, or ignoreGroups is off) inserts the message into the
\* cache and publishes one message event, and leaves a read receipt to a
\* detached goroutine if and only if readMessages is enabled and the message
\* is not self-sent; a suppressed one changes nothing and publishes nothing;
\* the dispatch of the receipt, failed or not, changes neither the cache nor
\* the published event nor any caller's result.
C20_UnsuppressedMessageCachedPublished ==
    [][/\ Handles("message")
          => LET n == Len(delivered')
                 m == delivered'[n]
             IN /\ m.ignore = objs[m.o].IgnoreGroups
                /\ finished' = finished
                /\ IF Suppressed(m.ignore, m.isGroup)
                     THEN /\ evt' = NoEvt /\ libCall' = NoCall
                          /\ UNCHANGED <<messages, stored, tasks>>
                     ELSE MessageHandled(n)
       /\ ReceiptDetached]_vars

\* the receipt of a cached message failed, and the message is still the
\* newest of its chat; another message, the account's own, got no receipt
C20_Witness ==
    \E n, k \in DOMAIN delivered :
        /\ IsMessage(delivered, n) /\ IsMessage(delivered, k)
        /\ \E f \in Made(finished, "MarkRead", n) : ~f.ok
        /\ delivered[k].read /\ delivered[k].fromMe
        /\ ~Suppressed(delivered[k].ignore, delivered[k].isGroup)
        /\ Len(ChatList(objs[delivered[n].o].ID, delivered[n].chat)) = 2


\* the settings of an Instance
Settings == {"RejectCalls", "AlwaysOnline", "IgnoreGroups", "ReadMessages"}

\* C21: all settings of a newly created instance are false; a step that
\* changes a setting of an instance changes that one setting only: no other
\* setting and no other field of the instance (its status included), no other
\* instance, and no call to the protocol library is made.
C21_SettingsArePureFieldWrites ==
    [][/\ \A o \in DOMAIN objs' :
            o \notin DOMAIN objs => \A f \in Settings : ~objs'[o][f]
       /\ \A o \in DOMAIN objs, f \in Settings :
            objs'[o][f] # objs[o][f]
            => /\ objs' = [objs EXCEPT ![o][f] = objs'[o][f]]
               /\ libCall' = NoCall
               /\ evt' = NoEvt
               /\ UNCHANGED <<instances, mapping, mappingFile, thr>>]_vars


\* =====================================================================
\* Proxy mutator and its reconnection (SpecProxy)
\* =====================================================================
MaxReconn == 2

\* the proxy configurations a call can name ("" disables the proxy)
Proxies == {"", "px"}

\* the reconnect goroutines started so far
Reconnects(ts, fs) ==
    {x \in ts : x.kind \in {"Reconnect", "ReconnectUp"}}
       \cup {[kind |-> "ReconnectUp", o |-> x.o, ref |-> x.ref] :
                x \in {y \in fs : y.kind = "Reconnect"}}

\* a SetProxy that restarts the transport whatever the status
ReconnectWantedAlways(status) == TRUE

\* if status == "connected" { go func() { ... }() }
ReconnectWanted(status) == status = "connected"

\* SetProxy: GetInstance; under inst.mu the proxy fields are written and the
\* client and the status are read; client.SetProxyAddress(proxyURL); when the
\* status read was "connected" the reconnection is left to a goroutine;
\* return nil.  An unknown id returns "instance not found".
SetProxy(t, id, proxy) ==
    /\ thr[t].pc = "idle"
    /\ MuFree
    /\ IF instances[id] = Nil
         THEN /\ Step(t, [Call(t, "SetProxy", id) EXCEPT
                             !.pc = "done", !.res = "err_notfound", !.arg = proxy])
              /\ Quiet
              /\ UNCHANGED <<objs, tasks>>
         ELSE LET o == instances[id]
                  n == Cardinality(Reconnects(tasks, finished)) + 1
              IN /\ ReconnectWanted(objs[o].Status) => n <= MaxReconn
                 /\ Step(t, [Call(t, "SetProxy", id) EXCEPT
                                !.pc = "done", !.res = "ok", !.arg = proxy,
                                !.st0 = objs[o].Status])
                 /\ objs' = SetField(o, "Proxy", proxy)
                 /\ evt' = NoEvt
                 /\ libCall' = "SetProxyAddress"
                 /\ tasks' = IF ReconnectWanted(objs[o].Status)
                               THEN tasks \cup {Task("Reconnect", o, n)}
                               ELSE tasks
    /\ UNCHANGED <<delivered, finished>>
    /\ UNCHANGED <<instances, mapping, mappingFile, container, mu>>
    /\ UNCHANGED <<busVars, cacheVars, bridgeVars>>

\* the goroutine: client.Disconnect(); time.Sleep(1 * time.Second)
GoProxyDisconnect ==
    \E task \in tasks :
       /\ task.kind = "Reconnect"
       /\ tasks' = (tasks \ {task}) \cup {Task("ReconnectUp", task.o, task.ref)}
       /\ objs' = SetField(task.o, "Up", FALSE)
       /\ evt' = NoEvt
       /\ libCall' = "Disconnect"
       /\ UNCHANGED <<delivered, finished>>
       /\ UNCHANGED <<instances, mapping, mappingFile, container, mu, thr>>
       /\ UNCHANGED <<busVars, cacheVars, bridgeVars>>

\* the goroutine: if err := client.Connect(); err != nil { log } else { log }
GoProxyConnect ==
    \E task \in tasks, ok \in BOOLEAN :
       /\ task.kind = "ReconnectUp"
       /\ tasks' = tasks \ {task}
       /\ finished' = finished \cup
             {[kind |-> "Reconnect", o |-> task.o, ref |-> task.ref, ok |-> ok]}
       /\ objs' = IF ok THEN SetField(task.o, "Up", TRUE) ELSE objs
       /\ evt' = NoEvt
       /\ libCall' = "Connect"
       /\ UNCHANGED delivered
       /\ UNCHANGED <<instances, mapping, mappingFile, container, mu, thr>>
       /\ UNCHANGED <<busVars, cacheVars, bridgeVars>>

\* proxies being set on a connected instance while a caller may disconnect
\* it, the transport may drop and the library reports its connections
NextProxy ==
    \/ \E t \in Callers, id \in IDs, proxy \in Proxies : SetProxy(t, id, proxy)
    \/ GoProxyDisconnect
    \/ GoProxyConnect
    \/ \E t \in Callers, id \in IDs : StartDisconnect(t, id)
    \/ \E t \in Callers : DDisc(t)
    \/ \E t \in Callers : DSet(t)
    \/ \E t \in Callers : Return(t)
    \/ \E o \in Ptrs : CbConnected(o)
    \/ \E o \in Ptrs : CbDisconnected(o)

SpecProxy == InitEvents /\ [][NextProxy]_vars

\* caller t returns from SetProxy in this step
SetProxyReturns(t) ==
    thr[t].pc = "idle" /\ thr'[t].pc = "done" /\ thr'[t].op = "SetProxy"

\* C22: SetProxy on a registered id writes the proxy fields and returns
\* success; if the instance is connected it starts one detached goroutine,
\* which disconnects and then reconnects the transport and whose outcome
\* reaches no caller; if the instance is not connected no goroutine is
\* started; SetProxy itself neither disconnects nor connects.
C22_SetProxyReconnectsDetached ==
    [][/\ \A t \in Threads :
            SetProxyReturns(t) /\ instances[thr'[t].id] # Nil
            => LET o == instances[thr'[t].id]
                   n == Cardinality(Reconnects(tasks, finished)) + 1
               IN /\ thr'[t].res = "ok"
                  /\ objs' = [objs EXCEPT ![o].Proxy = thr'[t].arg]
                  /\ libCall' \notin {"Disconnect", "Connect"}
                  /\ finished' = finished
                  /\ tasks' = IF objs[o].Status = "connected"
                                THEN tasks \cup {Task("Reconnect", o, n)}
                                ELSE tasks
                  /\ objs[o].Status = "connected" => Task("Reconnect", o, n) \notin tasks
       /\ \A task \in tasks \ tasks' :
            /\ task.kind = "Reconnect"
               => /\ libCall' = "Disconnect"
                  /\ tasks' = (tasks \ {task})
                                 \cup {Task("ReconnectUp", task.o, task.ref)}
                  /\ ~objs'[task.o].Up
            /\ task.kind = "ReconnectUp"
               => /\ libCall' = "Connect"
                  /\ tasks' = tasks \ {task}
            /\ task.kind \in {"Reconnect", "ReconnectUp"}
               => /\ thr' = thr
                  /\ evt' = NoEvt
                  /\ \A o \in Ptrs : objs'[o].Status = objs[o].Status
                                     /\ objs'[o].Proxy = objs[o].Proxy]_vars

\* a reconnection started by SetProxy has failed, and a later SetProxy on the
\* instance, by then disconnected, has returned success without starting one
C22_Witness ==
    \E t \in Callers :
        /\ thr[t].pc = "done" /\ thr[t].op = "SetProxy" /\ thr[t].res = "ok"
        /\ thr[t].st0 = "disconnected"
        /\ thr[t].arg = "px"
        /\ \E f \in finished : f.kind = "Reconnect" /\ ~f.ok
        /\ tasks = {}


\* what the handler of t has read from its channel and what is waiting in it
Stream(t) ==
    IF bus[t].ch = Nil THEN <<>> ELSE Forwarded(t) \o chans[bus[t].ch].buf

\* C23: the sequence a subscriber reads from its channel is a subsequence of
\* the publication sequence of the instance: the events (numbered in
\* publication order) come in strictly increasing order, none reordered and
\* none twice.
C23_SubscriberReadsSubsequence ==
    \A t \in Subscribers :
       \A j, k \in DOMAIN Stream(t) : j < k => Stream(t)[j] < Stream(t)[k]


\* C24: a failed write of the SessionMapping aborts the mutation instead of
\* being ignored, so the mapping in memory never diverges from the persisted
\* one: in every state m.mapping and the mapping file hold the same entries.
C24_MappingNeverDiverges ==
    \A id \in DOMAIN mapping : mapping[id] = mappingFile[id]


\* =====================================================================
\* Live messages and history sync in the cache (SpecHistory)
\* =====================================================================
MaxHist == 2

\* the histories a sync dispatched as the n-th event can carry for a chat: up
\* to MaxHist messages, each older than the sync, in any order
Histories(n) ==
    UNION {[1..len -> 0..(n - 1)] : len \in 0..MaxHist}

\* the list of a chat after storeMessage was called for every message of hs
RECURSIVE StoredAll(_, _)
StoredAll(msgs, hs) ==
    IF hs = <<>> THEN msgs
    ELSE StoredAll(Evict(Append(msgs, Head(hs))), Tail(hs))

\* events.HistorySync: every message of every conversation is parsed,
\* formatted and passed to storeMessage in the order the sync lists them;
\* then "history_sync" is published.  The settings are not looked at.
CbHistorySync(o) ==
    /\ objs[o].Up /\ objs[o].StoreID # NoJID
    /\ Len(delivered) < MaxIn
    /\ \E chat \in EventChats, hs \in Histories(Len(delivered) + 1) :
         LET id == objs[o].ID
         IN /\ delivered' = Append(delivered,
                                   Dispatched("history_sync", o, chat, FALSE, FALSE))
            /\ messages' = WithChat(id, chat, StoredAll(ChatList(id, chat), hs))
            /\ stored' = [stored EXCEPT ![id][chat] = @ + Len(hs)]
            /\ Publishes("history_sync", id)
    /\ rd' = NoRead
    /\ UNCHANGED <<tasks, finished>>
    /\ UNCHANGED <<instances, objs, mapping, mappingFile, container, mu, thr>>
    /\ UNCHANGED <<busVars, bridgeVars>>

\* live messages and history syncs arriving for a connected instance, and
\* reads of the cache
NextHistory ==
    \/ \E o \in Ptrs : CbMessage(o)
    \/ \E o \in Ptrs : CbHistorySync(o)
    \/ \E id \in IDs, chat \in EventChats, limit \in Limits :
          GetChatMessages(id, chat, limit)

SpecHistory == InitEvents /\ [][NextHistory]_vars

\* the timestamps of q never decrease
Chronological(q) == \A j, k \in DOMAIN q : j < k => q[j] <= q[k]

\* C25: GetChatMessages(instance, chat, limit) with a positive limit returns
\* exactly the last min(limit, stored) entries of the chat's list, never more
\* than stored, and in ascending chronological order: the timestamps of the
\* result never decrease, whatever live messages and history syncs were
\* inserted.
C25_ReadIsLastAndChronological ==
    rd.id # "" /\ rd.limit > 0
    => LET msgs == ChatList(rd.id, rd.chat)
       IN /\ rd.res = LastN(msgs, Min(rd.limit, Len(msgs)))
          /\ Len(rd.res) <= Len(msgs)
          /\ Chronological(rd.res)


\* C26: in every reachable state a registered instance whose status is
\* connected or disconnected has an empty QR payload and an empty pairing
\* code: both are cleared on every transition into connected and into
\* disconnected.
C26_TransientsCleared ==
    \A id \in DOMAIN instances :
        instances[id] # Nil
        /\ objs[instances[id]].Status \in {"connected", "disconnected"}
        => /\ objs[instances[id]].QRCode = ""
           /\ objs[instances[id]].PairingCode = ""


\* the identity fields of Instance o are empty
Anonymous(os, o) == os[o].WANumber = NoJID /\ os[o].WAName = ""

\* C27: WANumber and WAName are populated only once the instance is
\* connected, and are empty after a logout: a step that fills one of them
\* leaves the instance in status connected, and the step of a logged_out
\* callback leaves both empty.
C27_IdentityOnlyOnceConnected ==
    [][\A o \in Ptrs :
         /\ \/ objs[o].WANumber = NoJID /\ objs'[o].WANumber # NoJID
            \/ objs[o].WAName = "" /\ objs'[o].WAName # ""
            => objs'[o].Status = "connected"
         /\ evt' = <<"logged_out", objs[o].ID>> /\ objs'[o] # objs[o]
            => Anonymous(objs', o)]_vars


\* the status changes of the state machine
Transitions ==
    {<<"disconnected", "connecting">>, <<"connecting", "qr">>,
     <<"connecting", "pairing">>, <<"connecting", "connected">>,
     <<"connecting", "disconnected">>, <<"qr", "connected">>,
     <<"pairing", "connected">>, <<"qr", "disconnected">>,
     <<"pairing", "disconnected">>, <<"connected", "disconnected">>}

\* C28: every change of an instance's status is one of the transitions
\* disconnected -> connecting -> {qr | pairing} -> connected -> disconnected
\* (with connecting -> connected, and any of connecting, qr, pairing back to
\* disconnected); a logged_out callback moves the status to disconnected and
\* clears WANumber and WAName.
C28_OnlyListedTransitions ==
    [][\A o \in Ptrs :
         /\ objs'[o].Status # objs[o].Status
            => <<objs[o].Status, objs'[o].Status>> \in Transitions
         /\ evt' = <<"logged_out", objs[o].ID>> /\ objs'[o] # objs[o]
            => objs'[o].Status = "disconnected" /\ Anonymous(objs', o)]_vars


\* the library has paired the device of Instance o in this step: the
\* PairSuccess callback was handled
Paired(o) == objs[o].StoreID = NoJID /\ objs'[o].StoreID # NoJID

\* C29: every library callback handled by the state machine results in
\* exactly one published Event of the type of the callback: the step of a QR
\* issuance publishes "qr", the step of a pair success publishes an event for
\* the instance, the step that makes the instance connected publishes
\* "ready", and the step of a logged-out callback publishes "logged_out".
C29_EveryCallbackPublishes ==
    [][\A o \in Ptrs :
         /\ objs'[o].QRCode # objs[o].QRCode /\ objs'[o].QRCode # ""
            => evt' = <<"qr", objs[o].ID>>
         /\ Paired(o)
            => evt' # NoEvt /\ evt'[2] = objs[o].ID
         /\ objs'[o].Status = "connected" /\ objs[o].Status # "connected"
            => evt' = <<"ready", objs[o].ID>>
         /\ objs[o].StoreID # NoJID /\ objs'[o].StoreID = NoJID
            /\ libCall' = NoCall
            => evt' = <<"logged_out", objs[o].ID>>]_vars


\* =====================================================================
\* The instance lock around Status (SpecLocks)
\* =====================================================================
\* Here inst.mu is explicit: the field Mu of an Instance names who holds it
\* (Free, the handler goroutine of the library, or a caller thread), and an
\* access to Status is a step of its own, so that the state before the step
\* shows whether the lock was held.
Handler == "cb"
ApiCaller == "r1"

\* the handler of events.Disconnected: inst.mu.Lock()
DisconnectedLock(o) ==
    /\ objs[o].Up
    /\ objs[o].Mu = Free
    /\ objs' = SetField(o, "Mu", Handler)
    /\ Quiet
    /\ UNCHANGED <<instances, mapping, mappingFile, container, mu, thr>>
    /\ UNCHANGED <<busVars, cacheVars, taskVars, bridgeVars>>

\* inst.Status = "disconnected"; inst.mu.Unlock(); publishEvent
DisconnectedWrite(o) ==
    /\ objs[o].Mu = Handler
    /\ \E up \in BOOLEAN :
         objs' = [objs EXCEPT ![o].Status = "disconnected", ![o].Up = up,
                              ![o].Mu = Free]
    /\ Publishes("disconnected", objs[o].ID)
    /\ UNCHANGED <<instances, mapping, mappingFile, container, mu, thr>>
    /\ UNCHANGED <<busVars, cacheVars, taskVars, bridgeVars>>

\* SetAlwaysOnline, called once NewManager has returned: GetInstance;
\* inst.mu.Lock(); inst.AlwaysOnline = value; inst.mu.Unlock()
SetAlwaysOnlineWrite(t, id, value) ==
    /\ thr[Booter].pc = "r_end"
    /\ thr[t].pc = "idle"
    /\ MuFree
    /\ instances[id] # Nil
    /\ objs[instances[id]].Mu = Free
    /\ objs' = SetField(instances[id], "AlwaysOnline", value)
    /\ Step(t, [Call(t, "SetAlwaysOnline", id) EXCEPT
                   !.pc = "ao_read", !.inst = instances[id],
                   !.arg = IF value THEN "true" ELSE "false"])
    /\ Quiet
    /\ UNCHANGED <<instances, mapping, mappingFile, container, mu>>
    /\ UNCHANGED <<busVars, cacheVars, taskVars, bridgeVars>>

\* if value && inst.Client != nil && inst.Status == "connected" { SendPresence }:
\* Status is read here, after the Unlock
SetAlwaysOnlineRead(t) ==
    /\ thr[t].pc = "ao_read"
    /\ thr' = [thr EXCEPT ![t].pc = "done", ![t].res = "ok",
                 ![t].st0 = IF thr[t].arg = "true"
                              THEN objs[thr[t].inst].Status ELSE "-"]
    /\ evt' = NoEvt
    /\ libCall' = IF thr[t].arg = "true"
                     /\ objs[thr[t].inst].Status = "connected"
                    THEN "SendPresence" ELSE NoCall
    /\ UNCHANGED <<instances, objs, mapping, mappingFile, container, mu>>
    /\ UNCHANGED <<busVars, cacheVars, taskVars, bridgeVars>>

\* the restore at boot with the handlers of the clients it has connected, and
\* a settings call after it
NextLocks ==
    \/ RestoreEntry(Booter)
    \/ RestoreConnect(Booter)
    \/ RestoreStatus(Booter)
    \/ RestoreRegister(Booter)
    \/ RestoreEnd(Booter)
    \/ \E o \in Ptrs : DisconnectedLock(o)
    \/ \E o \in Ptrs : DisconnectedWrite(o)
    \/ \E id \in BootIDs, v \in BOOLEAN : SetAlwaysOnlineWrite(ApiCaller, id, v)
    \/ SetAlwaysOnlineRead(ApiCaller)
    \/ Return(ApiCaller)

SpecLocks == InitRestore /\ [][NextLocks]_vars

\* who takes the step: a caller thread whose record changes, or else the
\* handler goroutine
Stepper == IF thr' = thr THEN Handler
           ELSE CHOOSE t \in Threads : thr'[t] # thr[t]

\* C30: every write to an instance's Status is made while the instance lock
\* is held in write mode by the writer, and every read of Status is made
\* while the reader holds the lock.
C30_StatusOnlyUnderLock ==
    [][/\ \A o \in Ptrs :
            objs'[o].Status # objs[o].Status => objs[o].Mu = Stepper
       /\ \A t \in Threads :
            thr[t].pc = "ao_read" /\ thr'[t].pc = "done" /\ thr'[t].st0 # "-"
            => objs[thr[t].inst].Mu = t]_vars

\* =====================================================================
\* The registry lock and the protocol library
\* =====================================================================
\* positions at which the caller's next step is a call of Client.Connect,
\* Client.Logout, Client.PairPhone or of a send operation's library sequence
InLibrary == {"c_conn", "l_logout", "p_conn", "p_pair", "s_call"}

\* C31: m.mu is never held while a caller is in a call of the library's
\* connect, pairing-request, send or logout operation: whenever a caller is at
\* such a call nobody holds the registry lock, so the lookup of any other
\* caller (which only waits for m.mu) can proceed.
C31_RegistryLockNotHeldInLibrary ==
    \A t \in Threads : thr[t].pc \in InLibrary => mu = Free

\* every kind of library call is reached by a caller that went through the
\* creation under m.mu: a pairing request on an Instance the call created
C31_Witness ==
    \E t \in Threads :
        /\ thr[t].pc = "p_pair"
        /\ thr[t].inst # Nil
        /\ instances[thr[t].id] = thr[t].inst
        /\ mu = Free

\* =====================================================================
\* One live Instance per id
\* =====================================================================
\* C32: while an Instance is registered under an id, no Instance that was
\* removed from the registry under the same id still has its transport up
\* (connecting or connected, and so able to publish events for the id).
C32_RemovedInstanceIsDead ==
    \A p \in Ptrs :
        objs[p].Removed /\ instances[objs[p].ID] \notin {Nil, p} => ~objs[p].Up

\* =====================================================================
\* Directory lookup before a send
\* =====================================================================
\* the library calls that resolve a destination in the directory
DirectoryLookups == {"IsOnWhatsApp", "GetUserDevices"}

\* C33: in every outbound send operation the call that dispatches the message
\* (Client.SendMessage) comes after a directory lookup made by the same call
\* of the operation.
C33_LookupBeforeDispatch ==
    [][\A t \in Threads :
          /\ thr[t].pc = "s_call"
          /\ thr'[t].calls = thr[t].calls + 1
          /\ libCall' = "SendMessage"
          => \E j \in 1..(thr[t].k - 1) :
                /\ j <= thr[t].calls
                /\ LibSeq(thr[t].op)[j] \in DirectoryLookups]_vars

\* =====================================================================
\* Lock regions of the operations and handlers (SpecOrder)
\* =====================================================================
\* The four locks: m.mu, Instance.mu, m.eventSubsMu, m.messagesMu.
Locks == {"registry", "instance", "subscribers", "cache"}

\* l.Lock() ... l.Unlock() and l.RLock() ... l.RUnlock() around statements
\* that take no lock and do not return
Region(l) == <<[do |-> "Lock", on |-> l], [do |-> "Unlock", on |-> l]>>
RRegion(l) == <<[do |-> "RLock", on |-> l], [do |-> "RUnlock", on |-> l]>>
\* a call that takes none of the four locks itself
Invoke(f) == <<[do |-> "call", on |-> f]>>

\* publishEvent: the subscriber list is read under eventSubsMu.RLock, the
\* sends are made after the RUnlock
publishEvent ==
    Invoke("publishEvent") \o RRegion("subscribers") \o Invoke("send")

\* the handler of events.QR with the Unlock moved behind the publication
HandlerQRPublishesLocked ==
    <<[do |-> "Lock", on |-> "instance"]>> \o publishEvent
        \o <<[do |-> "Unlock", on |-> "instance"]>>
\* the handler of events.QR
HandlerQR == Region("instance") \o publishEvent

\* The statements of each operation and handler that take or release a lock,
\* call publishEvent or call the library, in program order; one sequence per
\* path through the function.
Paths(op) ==
    CASE op = "QR" -> {HandlerQR}
      [] op = "PairSuccess" -> {Region("instance") \o Region("registry")}
      [] op = "Connected" -> {Region("instance") \o publishEvent}
      [] op = "Disconnected" -> {Region("instance") \o publishEvent}
      [] op = "LoggedOut" -> {Region("instance") \o publishEvent}
      [] op = "Message" ->
           {RRegion("instance"),
            RRegion("instance") \o Region("cache") \o publishEvent}
      [] op = "HistorySync" -> {Region("cache") \o Region("cache") \o publishEvent}
      [] op = "Receipt" -> {publishEvent}
      [] op = "CallOffer" -> {publishEvent \o RRegion("instance")}
      [] op = "Connect" ->
           {Region("registry") \o Region("instance"),
            Region("registry") \o Region("instance") \o Region("instance")
                \o Invoke("Connect"),
            Region("registry") \o Region("instance") \o Region("instance")
                \o Invoke("Connect") \o Region("instance")}
      [] op = "ConnectWithPairingCode" ->
           {Region("registry") \o Region("instance"),
            Region("registry") \o Region("instance") \o Region("instance")
                \o Invoke("Connect") \o Region("instance"),
            Region("registry") \o Region("instance") \o Region("instance")
                \o Invoke("Connect") \o Invoke("PairPhone") \o Region("instance"),
            Region("registry") \o Region("instance") \o Region("instance")
                \o Invoke("Connect") \o Invoke("PairPhone") \o Region("instance")
                \o publishEvent}
      [] op = "Disconnect" ->
           {RRegion("registry"),
            RRegion("registry") \o Invoke("Disconnect") \o Region("instance")}
      [] op = "Logout" ->
           {Region("registry"),
            Region("registry") \o Invoke("Logout"),
            Region("registry") \o Invoke("Logout") \o Invoke("Disconnect")
                \o Region("registry")}
      [] op = "SendTextMessage" ->
           {RRegion("registry"),
            RRegion("registry") \o RRegion("instance"),
            RRegion("registry") \o RRegion("instance") \o Invoke("IsOnWhatsApp")
                \o Invoke("SendMessage")}
      [] op = "SetIgnoreGroups" ->
           {RRegion("registry"), RRegion("registry") \o Region("instance")}
      [] op = "SetProxy" ->
           {RRegion("registry"),
            RRegion("registry") \o Region("instance") \o Invoke("SetProxyAddress")}
      [] op = "Subscribe" -> {Region("subscribers")}
      [] op = "Unsubscribe" -> {Region("subscribers")}
      [] op = "GetChatMessages" -> {RRegion("cache")}

Programs ==
    {"QR", "PairSuccess", "Connected", "Disconnected", "LoggedOut", "Message",
     "HistorySync", "Receipt", "CallOffer", "Connect", "ConnectWithPairingCode",
     "Disconnect", "Logout", "SendTextMessage", "SetIgnoreGroups", "SetProxy",
     "Subscribe", "Unsubscribe", "GetChatMessages"}

\* sync.RWMutex: Lock waits until nobody holds the lock, RLock until no
\* writer holds it
Available(l, do) ==
    IF do = "Lock"
      THEN \A u \in Threads : \A h \in thr[u].held : h[1] # l
      ELSE \A u \in Threads : <<l, "Lock">> \notin thr[u].held

\* the goroutine's next statement waits for a lock
Blocked(t) ==
    /\ thr[t].code # <<>>
    /\ Head(thr[t].code).do \in {"Lock", "RLock"}
    /\ ~Available(Head(thr[t].code).on, Head(thr[t].code).do)

\* a goroutine enters an operation or a handler, along one of its paths
Enter(t, op) ==
    /\ thr[t].pc = "idle"
    /\ \E path \in Paths(op) :
         Step(t, [Call(t, op, "a") EXCEPT !.pc = "run", !.code = path])
    /\ Quiet
    /\ UNCHANGED <<instances, objs, mapping, mappingFile, container, mu>>
    /\ UNCHANGED <<busVars, cacheVars, taskVars, bridgeVars>>

\* the next statement of the goroutine
Execute(t) ==
    /\ thr[t].pc = "run"
    /\ thr[t].code # <<>>
    /\ ~Blocked(t)
    /\ LET st == Head(thr[t].code)
           held == CASE st.do \in {"Lock", "RLock"} ->
                          thr[t].held \cup {<<st.on, st.do>>}
                     [] st.do = "Unlock" -> thr[t].held \ {<<st.on, "Lock">>}
                     [] st.do = "RUnlock" -> thr[t].held \ {<<st.on, "RLock">>}
                     [] OTHER -> thr[t].held
       IN /\ thr' = [thr EXCEPT ![t].code = Tail(@), ![t].held = held]
          /\ libCall' = IF st.do = "call" /\ st.on \notin {"publishEvent", "send"}
                          THEN st.on ELSE NoCall
    /\ evt' = NoEvt
    /\ UNCHANGED <<instances, objs, mapping, mappingFile, container, mu>>
    /\ UNCHANGED <<busVars, cacheVars, taskVars, bridgeVars>>

\* the operation or handler returns
ReturnFrom(t) ==
    /\ thr[t].pc = "run"
    /\ thr[t].code = <<>>
    /\ Step(t, Idle)
    /\ Quiet
    /\ UNCHANGED <<instances, objs, mapping, mappingFile, container, mu>>
    /\ UNCHANGED <<busVars, cacheVars, taskVars, bridgeVars>>

\* two goroutines, each running operations and handlers one after the other
NextOrder ==
    \/ \E t \in Racers, op \in Programs : Enter(t, op)
    \/ \E t \in Racers : Execute(t)
    \/ \E t \in Racers : ReturnFrom(t)

SpecOrder == Init /\ [][NextOrder]_vars

LocksHeld(t) == {h[1] : h \in thr[t].held}

\* C34: no operation or handler holds two of the four locks at a time;
\* publishEvent is entered by a goroutine that holds no instance lock and
\* takes none itself; and the goroutines never all wait for locks.
C34_OneLockAtATimeNoDeadlock ==
    /\ \A t \in Threads : Cardinality(LocksHeld(t)) <= 1
    /\ \A t \in Threads :
         thr[t].code # <<>> /\ Head(thr[t].code) = publishEvent[1]
         => "instance" \notin LocksHeld(t)
    /\ \A i \in DOMAIN publishEvent : publishEvent[i].on # "instance"
    /\ (\E t \in Threads : thr[t].code # <<>>)
         => \E t \in Threads : thr[t].code # <<>> /\ ~Blocked(t)

\* a handler is inside publishEvent, reading the subscriber list under
\* eventSubsMu, while another goroutine holds the instance lock
C34_Witness ==
    /\ thr["r1"].op = "Connected"
    /\ thr["r1"].held = {<<"subscribers", "RLock">>}
    /\ thr["r2"].held = {<<"instance", "Lock">>}

\* =====================================================================
\* Sends and closed channels
\* =====================================================================
\* C35: every channel publishEvent sends to is open at the moment of the
\* send, however Unsubscribe is interleaved with the publication.
C35_SendsOnlyOnOpenChannels ==
    [][bus[Publisher].pc = "p_send" /\ bus'[Publisher].i = bus[Publisher].i + 1
       => ~chans[bus[Publisher].ch].closed]_vars

\* =====================================================================
\* ignoreGroups
\* =====================================================================
\* C36: the handler of a group message that finds ignoreGroups set stores
\* nothing, publishes nothing and leaves no read receipt to a goroutine, and
\* no receipt is ever dispatched for that message; the handler of a message
\* that is not a group message does the same with ignoreGroups set as without.
C36_IgnoredGroupMessageLeavesNoTrace ==
    [][/\ Handles("message")
          => LET n == Len(delivered')
                 m == delivered'[n]
             IN /\ m.ignore = objs[m.o].IgnoreGroups
                /\ m.ignore /\ m.isGroup
                   => /\ evt' = NoEvt /\ libCall' = NoCall
                      /\ UNCHANGED <<messages, stored, tasks, finished>>
                /\ ~m.isGroup => MessageHandled(n)
       /\ \A n \in DOMAIN delivered' :
            /\ IsMessage(delivered', n)
            /\ delivered'[n].ignore /\ delivered'[n].isGroup
            => /\ Pending(tasks', "MarkRead", n) = {}
               /\ Made(finished', "MarkRead", n) = {}
               /\ n \notin Range(ChatList(objs[delivered'[n].o].ID,
                                          delivered'[n].chat))]_vars

\* with ignoreGroups set, a group message was dropped and a message of a
\* contact was cached
C36_Witness ==
    \E n, k \in DOMAIN delivered :
        /\ IsMessage(delivered, n) /\ IsMessage(delivered, k)
        /\ delivered[n].ignore /\ delivered[n].isGroup
        /\ delivered[k].ignore /\ ~delivered[k].isGroup
        /\ ChatList(objs[delivered[k].o].ID, delivered[k].chat) = <<k>>

\* =====================================================================
\* A reconnection that fails (FairProxy)
\* =====================================================================
\* SpecProxy with its scheduling: a goroutine that was started runs, a call
\* in progress goes on to its return, and the library delivers the events of
\* a transport that is up.  Nobody is obliged to call SetProxy or Disconnect.
FairProxy ==
    /\ InitEvents /\ [][NextProxy]_vars
    /\ WF_vars(GoProxyDisconnect)
    /\ WF_vars(GoProxyConnect)
    /\ WF_vars(\E t \in Callers : DDisc(t) \/ DSet(t) \/ Return(t))
    /\ WF_vars(\E o \in Ptrs : CbConnected(o))

\* the reconnect goroutine of Instance o has closed the transport and its
\* Connect has failed
ReconnectFailed(o) ==
    /\ o \in Ptrs
    /\ ~objs[o].Up
    /\ \E f \in finished : f.kind = "Reconnect" /\ f.o = o /\ ~f.ok

\* C37: once the reconnection started by SetProxy has failed, leaving the
\* transport closed under status connected, the status becomes disconnected
\* (or the transport is reopened).
C37_FailedReconnectEndsDisconnected ==
    \A o \in 1..MaxObj :
        (ReconnectFailed(o) /\ objs[o].Status = "connected")
           ~> (o \in Ptrs /\ (objs[o].Status = "disconnected" \/ objs[o].Up))

\* =====================================================================
\* A library logout that fails
\* =====================================================================
\* this step is the library logout of caller t, and it fails
LogoutFails(t) ==
    /\ thr[t].pc = "l_logout"
    /\ thr'[t].pc = "done"
    /\ libCall' = "Logout"

\* C38: when the library logout fails, Logout returns the error and nothing
\* has changed: the registry, the Instance with its status, identity and
\* transport, the session mapping and its file are as they were.
C38_FailedLogoutChangesNothing ==
    [][\A t \in Threads :
          LogoutFails(t)
          => /\ thr'[t].res = "err_logout"
             /\ instances' = instances
             /\ instances[thr[t].id] = thr[t].inst
                => objs'[thr[t].inst] = objs[thr[t].inst]
             /\ mapping' = mapping /\ mappingFile' = mappingFile
             /\ container' = container
             /\ evt' = NoEvt]_vars

\* Logout has failed on a connected, paired instance that is still registered
\* and connected
C38_Witness ==
    \E t \in Threads :
        /\ thr[t].op = "Logout" /\ thr[t].pc = "done"
        /\ thr[t].res = "err_logout"
        /\ instances[thr[t].id] # Nil
        /\ objs[instances[thr[t].id]].Status = "connected"
        /\ objs[instances[thr[t].id]].Up
        /\ objs[instances[thr[t].id]].StoreID # NoJID

\* =====================================================================
\* Connect's check and write of the status
\* =====================================================================
\* C39: the status of an Instance never changes from connected to
\* connecting, however Connect is interleaved with the Connected callback
\* and with other operations.
C39_ConnectedNeverBecomesConnecting ==
    [][\A o \in Ptrs :
          objs[o].Status = "connected" => objs'[o].Status # "connecting"]_vars

\* =====================================================================
\* The Node bridge's sockets to the service (SpecBridge)
\* =====================================================================
\* WhatsAppBridge keeps, per instance id, the WebSocket it opened to
\* /ws/<id> (wsConnections) and the timer that will reopen it
\* (reconnectTimers).  JavaScript runs each call and each callback to its end
\* before the next, so each is one step.  A socket is "open" from its
\* creation, "closing" once close() was called on it, and "closed" when its
\* close event has been handled; a timer is "pending", "fired" or "cleared".
MaxSockets == 4      \* sockets the bridge ever creates

\* disconnectWebSocket: close and forget the socket of the id, clear and
\* forget its timer
disconnectWebSocket(b, id) ==
    LET ws == b.wsConnections[id]
        b1 == IF ws # Nil
                THEN [b EXCEPT !.sockets[ws].state =
                                   IF @ = "open" THEN "closing" ELSE @,
                               !.wsConnections[id] = Nil]
                ELSE b
        timer == b1.reconnectTimers[id]
    IN IF timer # Nil
         THEN [b1 EXCEPT !.timers[timer].state =
                             IF @ = "pending" THEN "cleared" ELSE @,
                         !.reconnectTimers[id] = Nil]
         ELSE b1

\* connectWebSocket: disconnectWebSocket(id); ws = new WebSocket(url) with its
\* handlers; wsConnections.set(id, ws)
connectWebSocket(b, id) ==
    LET b1 == disconnectWebSocket(b, id)
    IN [b1 EXCEPT !.sockets = Append(@, [id |-> id, state |-> "open"]),
                  !.wsConnections[id] = Len(b1.sockets) + 1]

\* instances.set(id, ...) followed by connectWebSocket(id)
Track(b, id) == connectWebSocket([b EXCEPT !.instances = @ \cup {id}], id)

\* connect(id), once the service has answered the request
BridgeConnect(id) ==
    /\ Len(bridge.sockets) < MaxSockets
    /\ bridge' = Track(bridge, id)
    /\ UNCHANGED <<lifeVars, busVars, cacheVars, taskVars>>

\* connectWithPairingCode(id, phone), once the service has answered
BridgeConnectWithPairingCode(id) ==
    /\ Len(bridge.sockets) < MaxSockets
    /\ bridge' = Track(bridge, id)
    /\ UNCHANGED <<lifeVars, busVars, cacheVars, taskVars>>

\* reconnectAll: the loop over the instances the database lists
RECURSIVE ReconnectEach(_, _)
ReconnectEach(b, ids) ==
    IF ids = {} THEN b
    ELSE LET id == CHOOSE x \in ids : TRUE
         IN ReconnectEach(Track(b, id), ids \ {id})

BridgeReconnectAll ==
    \E ids \in SUBSET IDs :
       /\ ids # {}
       /\ Len(bridge.sockets) + Cardinality(ids) <= MaxSockets
       /\ bridge' = ReconnectEach(bridge, ids)
       /\ UNCHANGED <<lifeVars, busVars, cacheVars, taskVars>>

\* logout(id), once the service has answered: disconnectWebSocket(id);
\* instances.delete(id)
BridgeLogout(id) ==
    /\ bridge' = [disconnectWebSocket(bridge, id) EXCEPT !.instances = @ \ {id}]
    /\ UNCHANGED <<lifeVars, busVars, cacheVars, taskVars>>

\* ws.onclose of socket s, after close() or when the connection is lost:
\* wsConnections.delete(id); a timer of 5 s is set and put in reconnectTimers
SocketCloses(s) ==
    /\ bridge.sockets[s].state \in {"open", "closing"}
    /\ LET id == bridge.sockets[s].id
       IN bridge' = [bridge EXCEPT
             !.sockets[s].state = "closed",
             !.wsConnections[id] = Nil,
             !.timers = Append(@, [id |-> id, state |-> "pending"]),
             !.reconnectTimers[id] = Len(bridge.timers) + 1]
    /\ UNCHANGED <<lifeVars, busVars, cacheVars, taskVars>>

\* the timer's callback: if (instances.has(id)) connectWebSocket(id)
TimerFires(k) ==
    /\ bridge.timers[k].state = "pending"
    /\ LET id == bridge.timers[k].id
           b1 == [bridge EXCEPT !.timers[k].state = "fired"]
       IN /\ id \in bridge.instances => Len(bridge.sockets) < MaxSockets
          /\ bridge' = IF id \in bridge.instances
                         THEN connectWebSocket(b1, id) ELSE b1
    /\ UNCHANGED <<lifeVars, busVars, cacheVars, taskVars>>

NextBridge ==
    \/ \E id \in IDs : BridgeConnect(id)
    \/ \E id \in IDs : BridgeConnectWithPairingCode(id)
    \/ BridgeReconnectAll
    \/ \E id \in IDs : BridgeLogout(id)
    \/ \E s \in DOMAIN bridge.sockets : SocketCloses(s)
    \/ \E k \in DOMAIN bridge.timers : TimerFires(k)

SpecBridge == Init /\ [][NextBridge]_vars

\* the sockets of the id that are open, and all of them
OpenSockets(b, id) ==
    {s \in DOMAIN b.sockets : b.sockets[s].id = id /\ b.sockets[s].state = "open"}
SocketsOf(b, id) == {s \in DOMAIN b.sockets : b.sockets[s].id = id}


\* C40: for each id at most one socket to the service is open, the
\* wsConnections entry is the most recently opened socket of the id and every
\* open socket has its entry, and no socket is created for an id that is not
\* tracked (logout untracks the id).
C40_OneSocketPerId ==
    [][\A id \in IDs :
          /\ Cardinality(OpenSockets(bridge', id)) <= 1
          /\ bridge'.wsConnections[id] # Nil
             => \A s \in SocketsOf(bridge', id) : s <= bridge'.wsConnections[id]
          /\ OpenSockets(bridge', id) # {} => bridge'.wsConnections[id] # Nil
          /\ \A s \in SocketsOf(bridge', id) \ SocketsOf(bridge, id) :
                id \in bridge'.instances]_vars
====
